---------------------------- MODULE Spec2Model ----------------------------
(***************************************************************************)
(* A model of the ARM GICv5 emulation core: the Interrupt Routing Service  *)
(* (IRS: IST walker, LPI cache, SPI table, config-frame registers, stream  *)
(* commands) and the per-CPU interface (PPI state, active priorities,      *)
(* HPPI selection, wake lines).                                            *)
(*                                                                         *)
(* Machine words are modelled as the set of their set bit positions, so    *)
(* that the C bit operations translate one for one: & is \cap, | is \cup,  *)
(* ~ is the complement within the width, 1 << n is {n}, ctz is the least   *)
(* element.  A 32-bit word is a subset of 0..31, a 64-bit one of 0..63.    *)
(***************************************************************************)
EXTENDS Integers, Sequences, FiniteSets, TLC

VARIABLES
    irs_spi_selr,     \* GICv5Common.irs_spi_selr[domain], 32-bit
    irs_pe_selr,      \* GICv5Common.irs_pe_selr[domain], 32-bit
    irs_ist_baser,    \* GICv5Common.irs_ist_baser[domain], 64-bit
    irs_ist_cfgr,     \* GICv5Common.irs_ist_cfgr[domain], 32-bit
    phys_lpi_config,  \* GICv5.phys_lpi_config[domain] without its lpi_cache
    lpi_cache,        \* GICv5ISTConfig.lpi_cache of each domain: id -> L2 ISTE word
    mem,              \* guest physical memory reached through cs->dma_as
    spi,              \* GICv5Common.spi[], indexed by SPI INTID
    aborted,          \* the emulator stopped: killed by a signal, a failed
                      \* assertion, or spinning in a loop that cannot end
    gicv5_cpuif,      \* CPUARMState.gicv5_cpuif of the one CPU
    interrupt_request,\* the CPU_INTERRUPT_* lines raised on the CPU
    sctlr_nmi,        \* SCTLR_EL1.NMI of the CPU
    expect_mem,       \* history: memory as the commands issued so far define it
    last_op,          \* history: the operation that led to this state
    nops              \* history: the number of operations so far

-----------------------------------------------------------------------------
(* Words as sets of bit positions *)

W32 == 0..31
W64 == 0..63

\* MAKE_64BIT_MASK(shift, length)
MAKE_64BIT_MASK(shift, length) == shift..(shift + length - 1)

RECURSIVE Val(_)
\* the number a word of at most 30 bits stands for
Val(w) == IF w = {} THEN 0
          ELSE LET b == CHOOSE x \in w : TRUE IN 2^b + Val(w \ {b})

\* the word that stands for a number below 2^30
BitsOf(n) == {b \in 0..29 : (n \div 2^b) % 2 = 1}

\* FIELD_EX32 / FIELD_EX64 / extract32 / extract64: the field as a word
FIELD_EX(w, f) == {b - f[1] : b \in w \cap MAKE_64BIT_MASK(f[1], f[2])}

\* FIELD_DP32 / FIELD_DP64 / deposit64: the field replaced by the low bits of v
FIELD_DP(w, f, v) ==
    (w \ MAKE_64BIT_MASK(f[1], f[2])) \cup {b + f[1] : b \in v \cap 0..(f[2] - 1)}

\* a C bool or small enum as a one-bit word
Bit(flag) == IF flag THEN {0} ELSE {}

RECURSIVE Inc(_, _)
\* add 2^b to a 64-bit word (carry ripples up, and is lost above bit 63)
Inc(w, b) == IF b > 63 THEN w
             ELSE IF b \in w THEN Inc(w \ {b}, b + 1)
             ELSE w \cup {b}

\* hwaddr + offset, for an offset below 2^30, modulo 2^64
AddOff(a, n) ==
    LET lo == Val(a \cap 0..29) + n
        hi == a \ (0..29)
    IN  BitsOf(lo % (2^30)) \cup (IF lo >= 2^30 THEN Inc(hi, 30) ELSE hi)

-----------------------------------------------------------------------------
(* Types and register fields *)

GICV5_ID_S == 0
GICV5_ID_NS == 1
GICV5_ID_EL3 == 2
GICV5_ID_REALM == 3
NUM_GICV5_DOMAINS == 4
Domains == 0..(NUM_GICV5_DOMAINS - 1)

GICV5_PPI == 1
GICV5_LPI == 2
GICV5_SPI == 3

GICV5_EDGE == 0
GICV5_LEVEL == 1
GICV5_TARGETED == 0
GICV5_1OFN == 1
GICV5_TRIGGER_EDGE == 0
GICV5_TRIGGER_LEVEL == 1

PRIO_IDLE == 255

QEMU_GICV5_ID_BITS == 24
QEMU_GICV5_MIN_LPI_ID_BITS == 14
QEMU_GICV5_PRI_BITS == 5

\* FIELD(reg, name, shift, length) as <<shift, length>>
IRS_IST_BASER_VALID == <<0, 1>>
IRS_IST_BASER_ADDR == <<6, 50>>
IRS_IST_CFGR_LPI_ID_BITS == <<0, 5>>
IRS_IST_CFGR_L2SZ == <<5, 2>>
IRS_IST_CFGR_ISTSZ == <<7, 2>>
IRS_IST_CFGR_STRUCTURE == <<16, 1>>
IRS_MAP_L2_ISTR_ID == <<0, 24>>
L1_ISTE_VALID == <<0, 1>>
L1_ISTE_L2_ADDR == <<12, 44>>
L2_ISTE_PENDING == <<0, 1>>
L2_ISTE_ACTIVE == <<1, 1>>
L2_ISTE_HM == <<2, 1>>
L2_ISTE_ENABLE == <<3, 1>>
L2_ISTE_IRM == <<4, 1>>
L2_ISTE_HWU == <<9, 2>>
L2_ISTE_PRIORITY == <<11, 5>>
L2_ISTE_IAFFID == <<16, 16>>

\* R_<reg>_<field>_MASK
FieldMask(f) == MAKE_64BIT_MASK(f[1], f[2])

\* gicv5_realize: only the NS domain is implemented
implemented_domains == {GICV5_ID_NS}

gicv5_domain_implemented(domain) == domain \in implemented_domains

-----------------------------------------------------------------------------
(* Bounds of the model: the guest's memory map and the inputs tried *)

\* Guest RAM is three pages; every other address fails its transaction.
Page0 == {30}             \* 0x4000_0000
Page1 == {30, 12}         \* 0x4000_1000
Page2 == {30, 13}         \* 0x4000_2000
\* number of 32-bit words of RAM at the start of each page
PageWords == 4

RamAddrs == {AddOff(p, 4 * i) : p \in {Page0, Page1, Page2}, i \in 0..(PageWords - 1)}


\* LPI interrupt IDs tried: one in the first L2 page of a 2-level table,
\* one in the second (l2_idx_bits = 10), one beyond 2^14
LpiIds == {0, 1024, 16384}

\* the SPIs this IRS owns: properties spi-base and spi-irs-range
spi_base == 1
spi_irs_range == 2

-----------------------------------------------------------------------------
(* Address-space client: address_space_{ldl,ldq,stl,stq}_le on cs->dma_as *)

\* MEMTX_OK iff every 32-bit word touched is guest RAM
MemOk32(m, a) == a \in DOMAIN m
MemOk64(m, a) == a \in DOMAIN m /\ AddOff(a, 4) \in DOMAIN m

address_space_ldl_le(m, a) == m[a]
address_space_ldq_le(m, a) == m[a] \cup {b + 32 : b \in m[AddOff(a, 4)]}
address_space_stl_le(m, a, v) == [m EXCEPT ![a] = v \cap W32]
address_space_stq_le(m, a, v) ==
    [m EXCEPT ![a] = v \cap W32, ![AddOff(a, 4)] = {b - 32 : b \in v \ W32}]

\* irs_txattrs: the MemTxAttrs used for IST accesses of this domain
irs_txattrs(domain) ==
    LET dom == IF domain = GICV5_ID_EL3 /\ ~gicv5_domain_implemented(GICV5_ID_REALM)
               THEN GICV5_ID_S ELSE domain
    IN  [space |-> dom, secure |-> dom = GICV5_ID_S \/ dom = GICV5_ID_EL3]

-----------------------------------------------------------------------------
(* IST walker *)

\* l1_iste_addr: cfg->base + (id >> l2_idx_bits) * 8
l1_iste_addr(cfg, id) == AddOff(cfg.base, (id \div (2^cfg.l2_idx_bits)) * 8)

\* a get_l2_iste_addr that indexes the L2 table with the whole id
get_l2_iste_addr_whole_id(cfg, m, id) ==
    IF ~cfg.valid THEN [ok |-> FALSE, addr |-> {}]
    ELSE IF id >= 2^cfg.id_bits THEN [ok |-> FALSE, addr |-> {}]
    ELSE IF cfg.structure
    THEN LET l1_addr == AddOff(cfg.base, (id \div (2^cfg.l2_idx_bits)) * 8) IN
         IF ~MemOk64(m, l1_addr) THEN [ok |-> FALSE, addr |-> {}]
         ELSE LET l1_iste == address_space_ldq_le(m, l1_addr) IN
              IF FIELD_EX(l1_iste, L1_ISTE_VALID) = {} THEN [ok |-> FALSE, addr |-> {}]
              ELSE [ok |-> TRUE,
                    addr |-> AddOff(l1_iste \cap FieldMask(L1_ISTE_L2_ADDR),
                                    id * cfg.istsz)]
    ELSE [ok |-> TRUE, addr |-> AddOff(cfg.base, id * cfg.istsz)]

\* get_l2_iste_addr: [ok, addr]; ok = FALSE is the C function returning false
get_l2_iste_addr(cfg, m, id) ==
    IF ~cfg.valid THEN [ok |-> FALSE, addr |-> {}]
    ELSE IF id >= 2^cfg.id_bits THEN [ok |-> FALSE, addr |-> {}]
    ELSE IF cfg.structure
    THEN LET l1_addr == l1_iste_addr(cfg, id) IN
         IF ~MemOk64(m, l1_addr) THEN [ok |-> FALSE, addr |-> {}]
         ELSE LET l1_iste == address_space_ldq_le(m, l1_addr) IN
              IF FIELD_EX(l1_iste, L1_ISTE_VALID) = {} THEN [ok |-> FALSE, addr |-> {}]
              ELSE [ok |-> TRUE,
                    addr |-> AddOff(l1_iste \cap FieldMask(L1_ISTE_L2_ADDR),
                                    (id % (2^cfg.l2_idx_bits)) * cfg.istsz)]
    ELSE [ok |-> TRUE, addr |-> AddOff(cfg.base, id * cfg.istsz)]

\* read_l2_iste_mem / write_l2_iste_mem: success of the transaction
read_l2_iste_mem(m, addr) == MemOk32(m, addr)

\* write_l2_iste_mem: memory after the write (unchanged when it fails)
write_l2_iste_mem(m, addr, l2_iste) ==
    IF MemOk32(m, addr) THEN address_space_stl_le(m, addr, l2_iste) ELSE m

\* a get_l2_iste that hands out a handle although the L2 ISTE read faulted
get_l2_iste_ignores_fault(cfg, cache, m, id) ==
    IF ~cfg.valid
    THEN [ok |-> FALSE, hashed |-> FALSE, id |-> id, l2_iste_addr |-> {}, l2_iste |-> {}]
    ELSE IF id \in DOMAIN cache
    THEN [ok |-> TRUE, hashed |-> TRUE, id |-> id, l2_iste_addr |-> {},
          l2_iste |-> cache[id]]
    ELSE LET a == get_l2_iste_addr(cfg, m, id) IN
         IF ~a.ok
         THEN [ok |-> FALSE, hashed |-> FALSE, id |-> id, l2_iste_addr |-> {},
               l2_iste |-> {}]
         ELSE [ok |-> TRUE, hashed |-> FALSE, id |-> id, l2_iste_addr |-> a.addr,
               l2_iste |-> IF read_l2_iste_mem(m, a.addr)
                           THEN address_space_ldl_le(m, a.addr) ELSE {}]

\* get_l2_iste: the L2_ISTE_Handle; ok = FALSE is the C function returning NULL.
\* l2_iste is the word the returned pointer points to.
get_l2_iste(cfg, cache, m, id) ==
    IF ~cfg.valid
    THEN [ok |-> FALSE, hashed |-> FALSE, id |-> id, l2_iste_addr |-> {}, l2_iste |-> {}]
    ELSE IF id \in DOMAIN cache
    THEN [ok |-> TRUE, hashed |-> TRUE, id |-> id, l2_iste_addr |-> {},
          l2_iste |-> cache[id]]
    ELSE LET a == get_l2_iste_addr(cfg, m, id) IN
         IF ~a.ok \/ ~read_l2_iste_mem(m, a.addr)
         THEN [ok |-> FALSE, hashed |-> FALSE, id |-> id, l2_iste_addr |-> {},
               l2_iste |-> {}]
         ELSE [ok |-> TRUE, hashed |-> FALSE, id |-> id, l2_iste_addr |-> a.addr,
               l2_iste |-> address_space_ldl_le(m, a.addr)]

\* a hash table without / with one more key
HashRemove(cache, id) == [k \in (DOMAIN cache) \ {id} |-> cache[k]]
HashInsert(cache, id, v) == [k \in (DOMAIN cache) \cup {id} |-> IF k = id THEN v ELSE cache[k]]

\* a put_l2_iste that drops a cached entry without writing it to memory
put_l2_iste_no_writeback(cfg, cache, m, h, w) ==
    IF h.hashed
    THEN IF FIELD_EX(w, L2_ISTE_PENDING) = {}
         THEN [cache |-> HashRemove(cache, h.id), mem |-> m]
         ELSE [cache |-> HashInsert(cache, h.id, w), mem |-> m]
    ELSE IF FIELD_EX(w, L2_ISTE_PENDING) # {}
    THEN [cache |-> HashInsert(cache, h.id, w), mem |-> m]
    ELSE [cache |-> cache, mem |-> write_l2_iste_mem(m, h.l2_iste_addr, w)]

\* a put_l2_iste that writes a cached word back but keeps its cache entry
put_l2_iste_keeps_entry(cfg, cache, m, h, w) ==
    IF h.hashed
    THEN IF FIELD_EX(w, L2_ISTE_PENDING) = {}
         THEN LET a == get_l2_iste_addr(cfg, m, h.id) IN
              [cache |-> HashInsert(cache, h.id, w),
               mem |-> IF a.ok THEN write_l2_iste_mem(m, a.addr, w) ELSE m]
         ELSE [cache |-> HashInsert(cache, h.id, w), mem |-> m]
    ELSE IF FIELD_EX(w, L2_ISTE_PENDING) # {}
    THEN [cache |-> HashInsert(cache, h.id, w), mem |-> m]
    ELSE [cache |-> cache, mem |-> write_l2_iste_mem(m, h.l2_iste_addr, w)]

\* a put_l2_iste that writes a newly pending word to memory as well
put_l2_iste_write_through(cfg, cache, m, h, w) ==
    IF h.hashed
    THEN IF FIELD_EX(w, L2_ISTE_PENDING) = {}
         THEN LET a == get_l2_iste_addr(cfg, m, h.id) IN
              [cache |-> HashRemove(cache, h.id),
               mem |-> IF a.ok THEN write_l2_iste_mem(m, a.addr, w) ELSE m]
         ELSE [cache |-> HashInsert(cache, h.id, w), mem |-> m]
    ELSE IF FIELD_EX(w, L2_ISTE_PENDING) # {}
    THEN [cache |-> HashInsert(cache, h.id, w),
          mem |-> write_l2_iste_mem(m, h.l2_iste_addr, w)]
    ELSE [cache |-> cache, mem |-> write_l2_iste_mem(m, h.l2_iste_addr, w)]

\* a put_l2_iste that caches every word read from guest memory
put_l2_iste_caches_all(cfg, cache, m, h, w) ==
    IF h.hashed
    THEN IF FIELD_EX(w, L2_ISTE_PENDING) = {}
         THEN LET a == get_l2_iste_addr(cfg, m, h.id) IN
              [cache |-> HashRemove(cache, h.id),
               mem |-> IF a.ok THEN write_l2_iste_mem(m, a.addr, w) ELSE m]
         ELSE [cache |-> HashInsert(cache, h.id, w), mem |-> m]
    ELSE [cache |-> HashInsert(cache, h.id, w),
          mem |-> IF FIELD_EX(w, L2_ISTE_PENDING) # {} THEN m
                  ELSE write_l2_iste_mem(m, h.l2_iste_addr, w)]

\* put_l2_iste, given the word w the caller left behind the handle's pointer:
\* the cache and the memory afterwards
put_l2_iste(cfg, cache, m, h, w) ==
    IF h.hashed
    THEN IF FIELD_EX(w, L2_ISTE_PENDING) = {}
         THEN LET a == get_l2_iste_addr(cfg, m, h.id) IN
              [cache |-> HashRemove(cache, h.id),
               mem |-> IF a.ok THEN write_l2_iste_mem(m, a.addr, w) ELSE m]
         ELSE [cache |-> HashInsert(cache, h.id, w), mem |-> m]
    ELSE IF FIELD_EX(w, L2_ISTE_PENDING) # {}
    THEN [cache |-> HashInsert(cache, h.id, w), mem |-> m]
    ELSE [cache |-> cache, mem |-> write_l2_iste_mem(m, h.l2_iste_addr, w)]

-----------------------------------------------------------------------------
(* SPI table lookup *)

\* gicv5_raw_spi_state: TRUE iff the function returns non-NULL
gicv5_raw_spi_state(id) == ~(id < spi_base \/ id >= spi_base + spi_irs_range)

\* gicv5_spi_state: TRUE iff the function returns non-NULL
gicv5_spi_state(id, domain) == gicv5_raw_spi_state(id) /\ spi[id].domain = domain

-----------------------------------------------------------------------------
(* Stream-protocol commands from the CPU interface *)

\* the selector registers of the config frames
SelVars == <<irs_spi_selr, irs_pe_selr>>
IstVars == <<irs_ist_baser, irs_ist_cfgr, phys_lpi_config, lpi_cache, mem>>
CpuVars == <<gicv5_cpuif, interrupt_request, sctlr_nmi>>

\* The word the commands so far define for the L2 ISTE of an LPI lives at
\* its L2 ISTE address; a command that finds the ISTE updates it there.
ExpectAfter(domain, id, f, v) ==
    LET a == get_l2_iste_addr(phys_lpi_config[domain], mem, id) IN
    IF a.ok /\ MemOk32(mem, a.addr)
    THEN [expect_mem EXCEPT ![a.addr] = FIELD_DP(@, f, v)]
    ELSE expect_mem

\* The LPI tail shared by the five commands:
\*   get_l2_iste(); *l2_iste_p = FIELD_DP32(*l2_iste_p, L2_ISTE, f, v); put_l2_iste()
LpiUpdate(domain, id, f, v) ==
    LET cfg == phys_lpi_config[domain]
        h == get_l2_iste(cfg, lpi_cache[domain], mem, id)
    IN  IF ~h.ok
        THEN UNCHANGED <<lpi_cache, mem, expect_mem>>
        ELSE LET r == put_l2_iste(cfg, lpi_cache[domain], mem, h, FIELD_DP(h.l2_iste, f, v))
             IN  /\ lpi_cache' = [lpi_cache EXCEPT ![domain] = r.cache]
                 /\ mem' = r.mem
                 /\ expect_mem' = ExpectAfter(domain, id, f, v)

\* the record of a stream command; hashed: its handle came from the LPI cache
Cmd(op, id, domain, type, virtual, arg) ==
    [op |-> op, id |-> id, domain |-> domain, type |-> type, virtual |-> virtual,
     arg |-> arg,
     hashed |-> /\ type = GICV5_LPI /\ ~virtual
                /\ get_l2_iste(phys_lpi_config[domain], lpi_cache[domain], mem, id).ok
                /\ get_l2_iste(phys_lpi_config[domain], lpi_cache[domain], mem, id).hashed]

gicv5_set_priority(id, priority, domain, type, virtual) ==
    LET prio == priority \cap MAKE_64BIT_MASK(5 - QEMU_GICV5_PRI_BITS, QEMU_GICV5_PRI_BITS)
    IN  /\ ~aborted
        /\ UNCHANGED SelVars
        /\ last_op' = Cmd("gicv5_set_priority", id, domain, type, virtual, priority)
        /\ UNCHANGED CpuVars
        /\ UNCHANGED <<irs_ist_baser, irs_ist_cfgr, phys_lpi_config, aborted>>
        /\ IF virtual THEN UNCHANGED <<spi, lpi_cache, mem, expect_mem>>
           ELSE IF type = GICV5_SPI
           THEN /\ spi' = IF gicv5_spi_state(id, domain)
                          THEN [spi EXCEPT ![id].priority = prio] ELSE spi
                /\ UNCHANGED <<lpi_cache, mem, expect_mem>>
           ELSE IF type # GICV5_LPI THEN UNCHANGED <<spi, lpi_cache, mem, expect_mem>>
           ELSE /\ LpiUpdate(domain, id, L2_ISTE_PRIORITY, prio)
                /\ UNCHANGED spi

gicv5_set_enabled(id, enabled, domain, type, virtual) ==
    /\ ~aborted
    /\ UNCHANGED SelVars
    /\ last_op' = Cmd("gicv5_set_enabled", id, domain, type, virtual, enabled)
    /\ UNCHANGED CpuVars
    /\ UNCHANGED <<irs_ist_baser, irs_ist_cfgr, phys_lpi_config, aborted>>
    /\ IF virtual THEN UNCHANGED <<spi, lpi_cache, mem, expect_mem>>
       ELSE IF type = GICV5_SPI
       THEN /\ spi' = IF gicv5_spi_state(id, domain)
                      THEN [spi EXCEPT ![id].enabled = TRUE] ELSE spi
            /\ UNCHANGED <<lpi_cache, mem, expect_mem>>
       ELSE IF type # GICV5_LPI THEN UNCHANGED <<spi, lpi_cache, mem, expect_mem>>
       ELSE /\ LpiUpdate(domain, id, L2_ISTE_ENABLE, Bit(enabled))
            /\ UNCHANGED spi

gicv5_set_pending(id, pending, domain, type, virtual) ==
    /\ ~aborted
    /\ UNCHANGED SelVars
    /\ last_op' = Cmd("gicv5_set_pending", id, domain, type, virtual, pending)
    /\ UNCHANGED CpuVars
    /\ UNCHANGED <<irs_ist_baser, irs_ist_cfgr, phys_lpi_config, aborted>>
    /\ IF virtual THEN UNCHANGED <<spi, lpi_cache, mem, expect_mem>>
       ELSE IF type = GICV5_SPI
       THEN /\ spi' = IF gicv5_spi_state(id, domain)
                      THEN [spi EXCEPT ![id].pending = TRUE] ELSE spi
            /\ UNCHANGED <<lpi_cache, mem, expect_mem>>
       ELSE IF type # GICV5_LPI THEN UNCHANGED <<spi, lpi_cache, mem, expect_mem>>
       ELSE /\ LpiUpdate(domain, id, L2_ISTE_PENDING, Bit(pending))
            /\ UNCHANGED spi

\* For an unreachable SPI the function logs and then stores through the NULL
\* pointer: the process dies with SIGSEGV.
gicv5_set_handling(id, handling, domain, type, virtual) ==
    /\ ~aborted
    /\ UNCHANGED SelVars
    /\ last_op' = Cmd("gicv5_set_handling", id, domain, type, virtual, handling)
    /\ UNCHANGED CpuVars
    /\ UNCHANGED <<irs_ist_baser, irs_ist_cfgr, phys_lpi_config>>
    /\ IF virtual THEN UNCHANGED <<spi, lpi_cache, mem, expect_mem, aborted>>
       ELSE IF type = GICV5_SPI
       THEN /\ IF gicv5_spi_state(id, domain)
               THEN spi' = [spi EXCEPT ![id].hm = handling] /\ UNCHANGED aborted
               ELSE aborted' = TRUE /\ UNCHANGED spi
            /\ UNCHANGED <<lpi_cache, mem, expect_mem>>
       ELSE IF type # GICV5_LPI
       THEN UNCHANGED <<spi, lpi_cache, mem, expect_mem, aborted>>
       ELSE /\ LpiUpdate(domain, id, L2_ISTE_HM, Bit(handling = GICV5_LEVEL))
            /\ UNCHANGED <<spi, aborted>>

\* irm only produces a log message; L2_ISTE.IRM is not written
gicv5_set_target(id, iaffid, irm, domain, type, virtual) ==
    /\ ~aborted
    /\ UNCHANGED SelVars
    /\ last_op' = Cmd("gicv5_set_target", id, domain, type, virtual, <<iaffid, irm>>)
    /\ UNCHANGED CpuVars
    /\ UNCHANGED <<irs_ist_baser, irs_ist_cfgr, phys_lpi_config, aborted>>
    /\ IF virtual THEN UNCHANGED <<spi, lpi_cache, mem, expect_mem>>
       ELSE IF type = GICV5_SPI
       THEN /\ spi' = IF gicv5_spi_state(id, domain)
                      THEN [spi EXCEPT ![id].iaffid = iaffid \cap W32] ELSE spi
            /\ UNCHANGED <<lpi_cache, mem, expect_mem>>
       ELSE IF type # GICV5_LPI THEN UNCHANGED <<spi, lpi_cache, mem, expect_mem>>
       ELSE /\ LpiUpdate(domain, id, L2_ISTE_IAFFID, iaffid)
            /\ UNCHANGED spi

\* FIELD(ICSR, ...): the layout of ICC_ICSR_EL1
ICSR_F == <<0, 1>>
ICSR_ENABLED == <<1, 1>>
ICSR_PENDING == <<2, 1>>
ICSR_IRM == <<3, 1>>
ICSR_ACTIVE == <<4, 1>>
ICSR_HM == <<5, 1>>
ICSR_PRIORITY == <<11, 5>>
ICSR_IAFFID == <<32, 16>>

\* the seven fields deposited one after the other into icsr = 0
IcsrPack(enabled, pending, irm, active, hm, priority, iaffid) ==
    FIELD_DP(FIELD_DP(FIELD_DP(FIELD_DP(FIELD_DP(FIELD_DP(FIELD_DP(FIELD_DP({},
        ICSR_F, {}),
        ICSR_ENABLED, enabled),
        ICSR_PENDING, pending),
        ICSR_IRM, irm),
        ICSR_ACTIVE, active),
        ICSR_HM, hm),
        ICSR_PRIORITY, priority),
        ICSR_IAFFID, iaffid)

\* an l2_iste_to_icsr that reports a failed walk as an all-zero ICSR
l2_iste_to_icsr_zero_on_failure(cfg, cache, m, id) ==
    LET h == get_l2_iste(cfg, cache, m, id) IN
    IF ~h.ok THEN {}
    ELSE IcsrPack(FIELD_EX(h.l2_iste, L2_ISTE_ENABLE),
                  FIELD_EX(h.l2_iste, L2_ISTE_PENDING),
                  FIELD_EX(h.l2_iste, L2_ISTE_IRM),
                  FIELD_EX(h.l2_iste, L2_ISTE_ACTIVE),
                  FIELD_EX(h.l2_iste, L2_ISTE_HM),
                  FIELD_EX(h.l2_iste, L2_ISTE_PRIORITY),
                  FIELD_EX(h.l2_iste, L2_ISTE_IAFFID))

l2_iste_to_icsr(cfg, cache, m, id) ==
    LET h == get_l2_iste(cfg, cache, m, id) IN
    IF ~h.ok THEN FieldMask(ICSR_F)
    ELSE IcsrPack(FIELD_EX(h.l2_iste, L2_ISTE_ENABLE),
                  FIELD_EX(h.l2_iste, L2_ISTE_PENDING),
                  FIELD_EX(h.l2_iste, L2_ISTE_IRM),
                  FIELD_EX(h.l2_iste, L2_ISTE_ACTIVE),
                  FIELD_EX(h.l2_iste, L2_ISTE_HM),
                  FIELD_EX(h.l2_iste, L2_ISTE_PRIORITY),
                  FIELD_EX(h.l2_iste, L2_ISTE_IAFFID))

\* a spi_state_to_icsr that leaves the PRIORITY field zero
spi_state_to_icsr_no_priority(s) ==
    IcsrPack(Bit(s.enabled), Bit(s.pending), BitsOf(s.irm), Bit(s.active),
             BitsOf(s.hm), {}, s.iaffid)

spi_state_to_icsr(s) ==
    IcsrPack(Bit(s.enabled), Bit(s.pending), BitsOf(s.irm), Bit(s.active),
             BitsOf(s.hm), s.priority, s.iaffid)

\* gicv5_request_config: the value returned in the current state
gicv5_request_config_icsr(id, domain, type, virtual) ==
    IF virtual THEN FieldMask(ICSR_F)
    ELSE IF type = GICV5_SPI
    THEN IF gicv5_spi_state(id, domain) THEN spi_state_to_icsr(spi[id])
         ELSE FieldMask(ICSR_F)
    ELSE l2_iste_to_icsr(phys_lpi_config[domain], lpi_cache[domain], mem, id)

\* gicv5_request_config reads only; last_op records the return value and the
\* operation that came immediately before (prev)
gicv5_request_config(id, domain, type, virtual) ==
    /\ ~aborted
    /\ UNCHANGED SelVars
    /\ last_op' = [op |-> "gicv5_request_config", id |-> id, domain |-> domain,
                   type |-> type, virtual |-> virtual,
                   ret |-> gicv5_request_config_icsr(id, domain, type, virtual),
                   prev |-> IF last_op.op = "gicv5_set_priority" THEN last_op
                            ELSE [op |-> last_op.op]]
    /\ UNCHANGED <<IstVars, spi, expect_mem, aborted, CpuVars>>

-----------------------------------------------------------------------------
(* IRS config frame registers *)

\* a spi_sample in which a falling line clears pending in either trigger mode
spi_sample_clear_on_fall(s) ==
    IF s.level
    THEN [s EXCEPT !.pending = TRUE,
                   !.hm = IF s.tm = GICV5_TRIGGER_EDGE THEN GICV5_EDGE ELSE GICV5_LEVEL]
    ELSE [s EXCEPT !.pending = FALSE]

\* spi_sample: the SPI after sampling its input line
spi_sample(s) ==
    IF s.level
    THEN [s EXCEPT !.pending = TRUE,
                   !.hm = IF s.tm = GICV5_TRIGGER_EDGE THEN GICV5_EDGE ELSE GICV5_LEVEL]
    ELSE IF s.tm = GICV5_TRIGGER_LEVEL THEN [s EXCEPT !.pending = FALSE]
    ELSE s

A_IRS_IST_BASER == 384      \* 0x180
A_IRS_IST_CFGR == 400       \* 0x190
A_IRS_MAP_L2_ISTR == 448    \* 0x1c0
A_IRS_SPI_SELR == 264       \* 0x108
IRS_SPI_SELR_ID == <<0, 24>>
A_IRS_SPI_RESAMPLER == 272  \* 0x110
A_IRS_SPI_CFGR == 276       \* 0x114
A_IRS_PE_SELR == 320        \* 0x140
IRS_SPI_CFGR_TM == <<0, 1>>
IRS_SPI_RESAMPLER_SPI_ID == <<0, 24>>

\* an irs_clean_lpi_cache that drops the entries without writing them
irs_clean_lpi_cache_drop(cfg, cache, m) == {m}

\* irs_clean_lpi_cache: guest memory after every cached word went through
\* irs_clean_lpi_cache_entry (the table itself ends up empty).  Entries are
\* visited in the hash table's order, which the program does not control.
RECURSIVE irs_clean_lpi_cache(_, _, _)
irs_clean_lpi_cache(cfg, cache, m) ==
    IF DOMAIN cache = {} THEN {m}
    ELSE UNION {LET a == get_l2_iste_addr(cfg, m, id)
                    m2 == IF a.ok THEN write_l2_iste_mem(m, a.addr, cache[id]) ELSE m
                IN  irs_clean_lpi_cache(cfg, HashRemove(cache, id), m2)
                : id \in DOMAIN cache}

EmptyCache == [k \in {} |-> {}]

\* a capture that takes the reserved ISTSZ and L2SZ encodings as the next size up
CapturedConfig_reserved_grows(domain, baser, cfgr) ==
    LET raw_bits == Val(FIELD_EX(cfgr, IRS_IST_CFGR_LPI_ID_BITS))
        lo_bits == IF raw_bits > QEMU_GICV5_MIN_LPI_ID_BITS
                   THEN raw_bits ELSE QEMU_GICV5_MIN_LPI_ID_BITS
        id_bits == IF lo_bits < QEMU_GICV5_ID_BITS THEN lo_bits ELSE QEMU_GICV5_ID_BITS
        istbits == 2 + Val(FIELD_EX(cfgr, IRS_IST_CFGR_ISTSZ))
        l2bits == 12 + 2 * Val(FIELD_EX(cfgr, IRS_IST_CFGR_L2SZ))
    IN  [base |-> baser \cap FieldMask(IRS_IST_BASER_ADDR),
         txattrs |-> irs_txattrs(domain),
         id_bits |-> id_bits,
         istsz |-> 2^istbits,
         l2_idx_bits |-> l2bits - istbits,
         structure |-> FIELD_EX(cfgr, IRS_IST_CFGR_STRUCTURE) # {},
         valid |-> TRUE]

\* the GICv5ISTConfig captured when the guest sets IRS_IST_BASER.VALID
CapturedConfig(domain, baser, cfgr) ==
    LET raw_bits == Val(FIELD_EX(cfgr, IRS_IST_CFGR_LPI_ID_BITS))
        lo_bits == IF raw_bits > QEMU_GICV5_MIN_LPI_ID_BITS
                   THEN raw_bits ELSE QEMU_GICV5_MIN_LPI_ID_BITS
        id_bits == IF lo_bits < QEMU_GICV5_ID_BITS THEN lo_bits ELSE QEMU_GICV5_ID_BITS
        istsz_f == Val(FIELD_EX(cfgr, IRS_IST_CFGR_ISTSZ))
        istbits == CASE istsz_f \in {0, 3} -> 2
                     [] istsz_f = 1 -> 3
                     [] istsz_f = 2 -> 4
        l2sz_f == Val(FIELD_EX(cfgr, IRS_IST_CFGR_L2SZ))
        l2bits == CASE l2sz_f \in {0, 3} -> 12
                    [] l2sz_f = 1 -> 14
                    [] l2sz_f = 2 -> 16
    IN  [base |-> baser \cap FieldMask(IRS_IST_BASER_ADDR),
         txattrs |-> irs_txattrs(domain),
         id_bits |-> id_bits,
         istsz |-> 2^istbits,
         l2_idx_bits |-> l2bits - istbits,
         structure |-> FIELD_EX(cfgr, IRS_IST_CFGR_STRUCTURE) # {},
         valid |-> TRUE]

\* an irs_ist_baser_write that stores the value whatever VALID is
irs_ist_baser_write_always(domain, value) ==
    /\ irs_ist_baser' = [irs_ist_baser EXCEPT ![domain] = value \cap W64]
    /\ UNCHANGED <<irs_ist_cfgr, phys_lpi_config, lpi_cache, mem>>

irs_ist_baser_write(domain, value) ==
    IF FIELD_EX(irs_ist_baser[domain], IRS_IST_BASER_VALID) # {}
    THEN IF FIELD_EX(value, IRS_IST_BASER_VALID) # {}
         THEN UNCHANGED IstVars
         ELSE /\ mem' \in irs_clean_lpi_cache(phys_lpi_config[domain],
                                              lpi_cache[domain], mem)
              /\ lpi_cache' = [lpi_cache EXCEPT ![domain] = EmptyCache]
              /\ irs_ist_baser' = [irs_ist_baser EXCEPT
                                     ![domain] = FIELD_DP(@, IRS_IST_BASER_VALID, {})]
              /\ phys_lpi_config' = [phys_lpi_config EXCEPT ![domain].valid = FALSE]
              /\ UNCHANGED irs_ist_cfgr
    ELSE /\ irs_ist_baser' = [irs_ist_baser EXCEPT ![domain] = value \cap W64]
         /\ phys_lpi_config' =
                IF FIELD_EX(value, IRS_IST_BASER_VALID) # {}
                THEN [phys_lpi_config EXCEPT
                        ![domain] = CapturedConfig(domain, value \cap W64,
                                                   irs_ist_cfgr[domain])]
                ELSE phys_lpi_config
         /\ UNCHANGED <<irs_ist_cfgr, lpi_cache, mem>>

\* irs_map_l2_istr_write: guest memory afterwards
irs_map_l2_istr_write(domain, value, m) ==
    LET cfg == phys_lpi_config[domain]
        intid == Val(FIELD_EX(value, IRS_MAP_L2_ISTR_ID))
        l1_addr == l1_iste_addr(cfg, intid)
    IN  IF FIELD_EX(irs_ist_baser[domain], IRS_IST_BASER_VALID) = {} \/ ~cfg.structure
        THEN m
        ELSE IF ~MemOk64(m, l1_addr) THEN m
        ELSE address_space_stq_le(m, l1_addr,
                 FIELD_DP(address_space_ldq_le(m, l1_addr), L1_ISTE_VALID, {0}))

\* the domain SPIs are assigned to at reset
mp_domain ==
    IF gicv5_domain_implemented(GICV5_ID_EL3) THEN GICV5_ID_EL3
    ELSE IF gicv5_domain_implemented(GICV5_ID_S) THEN GICV5_ID_S
    ELSE GICV5_ID_NS

SpiIds == spi_base..(spi_base + spi_irs_range - 1)

\* gicv5_common_reset_hold: the SPI array afterwards
ResetSpi ==
    [i \in SpiIds |->
        [iaffid |-> {}, priority |-> {}, level |-> FALSE, pending |-> FALSE,
         active |-> FALSE, enabled |-> FALSE, hm |-> GICV5_EDGE,
         irm |-> GICV5_TARGETED, tm |-> GICV5_TRIGGER_EDGE, domain |-> mp_domain]]

\* the SPI id IRS_SPI_SELR of the domain selects
SelrId(domain) == Val(FIELD_EX(irs_spi_selr[domain], IRS_SPI_SELR_ID))

\* spi_for_selr: TRUE iff the function returns non-NULL
spi_for_selr(domain) ==
    /\ gicv5_raw_spi_state(SelrId(domain))
    /\ (domain = GICV5_ID_EL3 \/ domain = spi[SelrId(domain)].domain)

\* an IRS_SPI_CFGR write that stores tm and then samples the line as
\* spi_sample does
irs_spi_cfgr_write_resamples(s, tm) ==
    spi_sample([s EXCEPT !.tm = IF tm = {} THEN GICV5_TRIGGER_EDGE
                                ELSE GICV5_TRIGGER_LEVEL])

\* an IRS_SPI_CFGR write whose change to Level does not touch hm
irs_spi_cfgr_write_keeps_hm(s, tm) ==
    LET new_tm == IF tm = {} THEN GICV5_TRIGGER_EDGE ELSE GICV5_TRIGGER_LEVEL
        t == [s EXCEPT !.tm = new_tm]
    IN  IF new_tm = s.tm THEN t
        ELSE IF new_tm = GICV5_TRIGGER_LEVEL
        THEN [t EXCEPT !.pending = s.level]
        ELSE IF s.level THEN [t EXCEPT !.pending = FALSE]
        ELSE t

\* an irs_spi_cfgr_write without the CLEAR event of a change to Level
irs_spi_cfgr_write_no_clear(s, tm) ==
    LET new_tm == IF tm = {} THEN GICV5_TRIGGER_EDGE ELSE GICV5_TRIGGER_LEVEL
        t == [s EXCEPT !.tm = new_tm]
    IN  IF new_tm = s.tm THEN t
        ELSE IF new_tm = GICV5_TRIGGER_LEVEL
        THEN IF s.level THEN [t EXCEPT !.pending = TRUE, !.hm = GICV5_LEVEL]
             ELSE t
        ELSE IF s.level THEN [t EXCEPT !.pending = FALSE]
        ELSE t

\* config_writel, case A_IRS_SPI_CFGR: the selected SPI after tm is written
irs_spi_cfgr_write(s, tm) ==
    LET new_tm == IF tm = {} THEN GICV5_TRIGGER_EDGE ELSE GICV5_TRIGGER_LEVEL
        t == [s EXCEPT !.tm = new_tm]
    IN  IF new_tm = s.tm THEN t
        ELSE IF new_tm = GICV5_TRIGGER_LEVEL
        THEN IF s.level THEN [t EXCEPT !.pending = TRUE, !.hm = GICV5_LEVEL]
             ELSE [t EXCEPT !.pending = FALSE]
        ELSE IF s.level THEN [t EXCEPT !.pending = FALSE]
        ELSE t

\* an IRS_IST_CFGR that is writable whatever VALID is
config_writel_IST_CFGR_always(domain, data) ==
    [irs_ist_cfgr EXCEPT ![domain] = data \cap W32]

\* config_writel, case A_IRS_IST_CFGR: the register array afterwards
config_writel_IST_CFGR(domain, data) ==
    IF FIELD_EX(irs_ist_baser[domain], IRS_IST_BASER_VALID) # {}
    THEN irs_ist_cfgr
    ELSE [irs_ist_cfgr EXCEPT ![domain] = data \cap W32]

config_writel(domain, offset, data) ==
    CASE offset = A_IRS_IST_BASER ->
           irs_ist_baser_write(domain, FIELD_DP(irs_ist_baser[domain], <<0, 32>>, data))
           /\ UNCHANGED <<expect_mem, spi, aborted, SelVars>>
      [] offset = A_IRS_IST_BASER + 4 ->
           irs_ist_baser_write(domain, FIELD_DP(irs_ist_baser[domain], <<32, 32>>, data))
           /\ UNCHANGED <<expect_mem, spi, aborted, SelVars>>
      [] offset = A_IRS_IST_CFGR ->
           /\ irs_ist_cfgr' = config_writel_IST_CFGR(domain, data)
           /\ UNCHANGED <<irs_ist_baser, phys_lpi_config, lpi_cache, mem, expect_mem>>
           /\ UNCHANGED <<spi, aborted, SelVars>>
      [] offset = A_IRS_MAP_L2_ISTR ->
           /\ mem' = irs_map_l2_istr_write(domain, data, mem)
           /\ expect_mem' = irs_map_l2_istr_write(domain, data, expect_mem)
           /\ UNCHANGED <<irs_ist_baser, irs_ist_cfgr, phys_lpi_config, lpi_cache>>
           /\ UNCHANGED <<spi, aborted, SelVars>>
      [] offset = A_IRS_SPI_SELR ->
           /\ irs_spi_selr' = [irs_spi_selr EXCEPT ![domain] = data \cap W32]
           /\ UNCHANGED <<IstVars, expect_mem, spi, aborted, irs_pe_selr>>
      [] offset = A_IRS_PE_SELR ->
           /\ irs_pe_selr' = [irs_pe_selr EXCEPT ![domain] = data \cap W32]
           /\ UNCHANGED <<IstVars, expect_mem, spi, aborted, irs_spi_selr>>
      [] offset = A_IRS_SPI_CFGR ->
           /\ spi' = IF spi_for_selr(domain)
                     THEN [spi EXCEPT ![SelrId(domain)] =
                              irs_spi_cfgr_write(@, FIELD_EX(data, IRS_SPI_CFGR_TM))]
                     ELSE spi
           /\ UNCHANGED <<IstVars, expect_mem, aborted, SelVars>>
      [] offset = A_IRS_SPI_RESAMPLER ->
           \* The trace call after the if reads spi->level, spi->pending and
           \* spi->active also when spi is NULL.  The values are used only
           \* when the trace event is enabled, so a build either performs
           \* the loads (SIGSEGV) or drops them.
           LET id == Val(FIELD_EX(data, IRS_SPI_RESAMPLER_SPI_ID)) IN
           /\ IF gicv5_spi_state(id, domain)
              THEN spi' = [spi EXCEPT ![id] = spi_sample(@)] /\ UNCHANGED aborted
              ELSE UNCHANGED spi /\ aborted' \in BOOLEAN
           /\ UNCHANGED <<IstVars, expect_mem, SelVars>>
      [] OTHER -> UNCHANGED <<IstVars, expect_mem, spi, aborted, SelVars>>

config_writell(domain, offset, data) ==
    CASE offset = A_IRS_IST_BASER ->
           irs_ist_baser_write(domain, data) /\ UNCHANGED <<expect_mem, spi, aborted, SelVars>>
      [] OTHER -> UNCHANGED <<IstVars, expect_mem, spi, aborted, SelVars>>

\* config_write: the MMIO write handler of an implemented domain's frame
config_write(domain, offset, data, size) ==
    /\ ~aborted
    /\ gicv5_domain_implemented(domain)
    /\ last_op' = [op |-> "config_write", domain |-> domain, offset |-> offset,
                   data |-> data, size |-> size,
                   valid_before |-> FIELD_EX(irs_ist_baser[domain], IRS_IST_BASER_VALID) # {},
                   selected |-> spi_for_selr(domain),
                   spi_before |-> IF spi_for_selr(domain) THEN spi[SelrId(domain)]
                                  ELSE ResetSpi[spi_base],
                   memtx |-> "MEMTX_OK"]
    /\ CASE size = 4 -> config_writel(domain, offset, data)
         [] size = 8 -> config_writell(domain, offset, data)
         [] OTHER -> UNCHANGED <<IstVars, expect_mem, spi, aborted, SelVars>>
    /\ UNCHANGED CpuVars

\* config frame registers that are read
A_IRS_IDR0 == 0
A_IRS_SPI_STATUSR == 280    \* 0x118
A_IRS_PE_STATUSR == 324     \* 0x144
A_IRS_IST_STATUSR == 404    \* 0x194
IRS_IDR0_INT_DOM == <<0, 2>>
IRS_IDR0_PA_RANGE == <<2, 5>>
IRS_IDR0_VIRT == <<6, 1>>
IRS_IDR0_MEC == <<10, 1>>
IRS_IDR0_IRSID == <<16, 16>>
IRS_SPI_STATUSR_IDLE == <<0, 1>>
IRS_SPI_STATUSR_V == <<1, 1>>
IRS_PE_SELR_IAFFID == <<0, 16>>
IRS_PE_STATUSR_IDLE == <<0, 1>>
IRS_PE_STATUSR_V == <<1, 1>>
IRS_PE_STATUSR_ONLINE == <<2, 1>>
IRS_IST_STATUSR_IDLE == <<0, 1>>

\* the "irsid" property (default); the IAFFID of the one CPU and the
\* "cpu-iaffids" array that holds it
irsid == {}
gicv5_iaffid == {}
cpu_iaffids == <<gicv5_iaffid>>

\* gicv5_set_idregs: IRS_IDR0
irs_idr0 == FIELD_DP(FIELD_DP({}, IRS_IDR0_PA_RANGE, {0, 1, 2}), IRS_IDR0_IRSID, irsid)

\* irs_pe_selr_valid: the whole register is compared with each table entry
irs_pe_selr_valid(domain) ==
    \E i \in DOMAIN cpu_iaffids : irs_pe_selr[domain] = cpu_iaffids[i]

\* config_readl: [result, data]; data is the word behind the data pointer
\* afterwards, given the word data it held at entry.  The case A_IRS_IDR0
\* computes its value in a local and returns true without storing it.
config_readl(domain, offset, data) ==
    CASE offset = A_IRS_IDR0 -> [result |-> TRUE, data |-> data]
      [] offset = A_IRS_IST_BASER ->
           [result |-> TRUE, data |-> FIELD_EX(irs_ist_baser[domain], <<0, 32>>)]
      [] offset = A_IRS_IST_BASER + 4 ->
           [result |-> TRUE, data |-> FIELD_EX(irs_ist_baser[domain], <<32, 32>>)]
      [] offset = A_IRS_IST_STATUSR ->
           [result |-> TRUE, data |-> FieldMask(IRS_IST_STATUSR_IDLE)]
      [] offset = A_IRS_IST_CFGR -> [result |-> TRUE, data |-> irs_ist_cfgr[domain]]
      [] offset = A_IRS_SPI_STATUSR ->
           [result |-> TRUE,
            data |-> FIELD_DP(FIELD_DP({}, IRS_SPI_STATUSR_V, Bit(spi_for_selr(domain))),
                              IRS_SPI_STATUSR_IDLE, {0})]
      [] offset = A_IRS_SPI_CFGR ->
           [result |-> TRUE,
            data |-> IF spi_for_selr(domain)
                     THEN FIELD_DP({}, IRS_SPI_CFGR_TM, BitsOf(spi[SelrId(domain)].tm))
                     ELSE {}]
      [] offset = A_IRS_PE_SELR -> [result |-> TRUE, data |-> irs_pe_selr[domain]]
      [] offset = A_IRS_PE_STATUSR ->
           [result |-> TRUE,
            data |-> FieldMask(IRS_PE_STATUSR_IDLE)
                     \cup (IF irs_pe_selr_valid(domain)
                           THEN FieldMask(IRS_PE_STATUSR_V)
                                \cup FieldMask(IRS_PE_STATUSR_ONLINE)
                           ELSE {})]
      [] OTHER -> [result |-> FALSE, data |-> data]

\* a config_readll that also serves IRS_IST_CFGR to 64-bit reads
config_readll_serves_cfgr(domain, offset, data) ==
    CASE offset = A_IRS_IST_BASER -> [result |-> TRUE, data |-> irs_ist_baser[domain]]
      [] offset = A_IRS_IST_CFGR -> [result |-> TRUE, data |-> irs_ist_cfgr[domain]]
      [] OTHER -> [result |-> FALSE, data |-> data]

config_readll(domain, offset, data) ==
    CASE offset = A_IRS_IST_BASER -> [result |-> TRUE, data |-> irs_ist_baser[domain]]
      [] OTHER -> [result |-> FALSE, data |-> data]

\* config_read: the MMIO read handler of an implemented domain's frame; data
\* is the word the caller put behind the data pointer.  last_op records the
\* word returned there and the MemTxResult.
config_read(domain, offset, data, size) ==
    LET r == CASE size = 4 -> config_readl(domain, offset, data)
               [] size = 8 -> config_readll(domain, offset, data)
               [] OTHER -> [result |-> FALSE, data |-> data]
    IN  /\ ~aborted
        /\ gicv5_domain_implemented(domain)
        /\ last_op' = [op |-> "config_read", domain |-> domain, offset |-> offset,
                       size |-> size, result |-> r.result,
                       ret |-> IF r.result THEN r.data ELSE {},
                       memtx |-> "MEMTX_OK"]
        /\ UNCHANGED <<IstVars, SelVars, spi, expect_mem, aborted, CpuVars>>

-----------------------------------------------------------------------------
(* Reset *)

\* a reset that cleans the caches to guest memory first
gicv5_reset_hold_writeback ==
    /\ ~aborted
    /\ UNCHANGED SelVars
    /\ last_op' = [op |-> "gicv5_reset_hold",
                   cached |-> UNION {DOMAIN lpi_cache[d] : d \in Domains}]
    /\ irs_ist_baser' = [d \in Domains |-> {}]
    /\ irs_ist_cfgr' = [d \in Domains |-> {}]
    /\ spi' = ResetSpi
    /\ phys_lpi_config' = [d \in Domains |-> [phys_lpi_config[d] EXCEPT !.valid = FALSE]]
    /\ lpi_cache' = [d \in Domains |-> EmptyCache]
    /\ mem' \in irs_clean_lpi_cache(phys_lpi_config[GICV5_ID_NS],
                                    lpi_cache[GICV5_ID_NS], mem)
    /\ expect_mem' = mem'
    /\ UNCHANGED <<aborted, CpuVars>>

\* gicv5_reset_hold, with the parent's hold phase gicv5_common_reset_hold
gicv5_reset_hold ==
    /\ ~aborted
    /\ UNCHANGED SelVars
    /\ last_op' = [op |-> "gicv5_reset_hold",
                   cached |-> UNION {DOMAIN lpi_cache[d] : d \in Domains}]
    /\ irs_ist_baser' = [d \in Domains |-> {}]
    /\ irs_ist_cfgr' = [d \in Domains |-> {}]
    /\ spi' = ResetSpi
    /\ phys_lpi_config' = [d \in Domains |-> [phys_lpi_config[d] EXCEPT !.valid = FALSE]]
    /\ lpi_cache' = [d \in Domains |-> EmptyCache]
    /\ expect_mem' = mem
    /\ UNCHANGED <<mem, aborted, CpuVars>>

-----------------------------------------------------------------------------
(* SPI input lines *)

\* gicv5_set_spi: the qemu_irq handler of SPI input line irq
gicv5_set_spi(irq, level) ==
    LET spi_id == irq + spi_base IN
    /\ ~aborted
    /\ UNCHANGED SelVars
    /\ last_op' = [op |-> "gicv5_set_spi", id |-> spi_id, level |-> level]
    /\ spi' = IF ~gicv5_raw_spi_state(spi_id) \/ spi[spi_id].level = level
              THEN spi
              ELSE [spi EXCEPT ![spi_id] = spi_sample([@ EXCEPT !.level = level])]
    /\ UNCHANGED <<IstVars, expect_mem, aborted, CpuVars>>

-----------------------------------------------------------------------------
(* CPU interface: registers and HPPI selection *)

GICV5_PPI_SW_PPI == 3
NUM_PPI_REGS == 2
NUM_PPI_PRIORITY_REGS == 16
GICV5_NUM_PPIS == 64 * NUM_PPI_REGS
PpiRegs == 0..(NUM_PPI_REGS - 1)

PPI_HMR0_RESET == W64 \ {GICV5_PPI_SW_PPI}
PPI_HMR1_RESET == W64

ICC_CR0_EN == <<0, 1>>
ICC_CR0_LINK == <<1, 1>>
ICC_CR0_LINK_IDLE == <<2, 1>>
ICC_PCR_PRIORITY == <<0, 5>>
ICC_HPPIR_EL1_HPPIV == <<32, 1>>
GICR_CDIA_VALID == <<32, 1>>
GIC_CDDI_ID == <<0, 24>>
GIC_CDDI_TYPE == <<29, 3>>
INTID_ID == <<0, 24>>
INTID_TYPE == <<29, 3>>

\* the least set bit of a non-empty word
ctz64(w) == CHOOSE b \in w : \A c \in w : b <= c

\* The CPU runs at EL1 in the Non-secure security space throughout (the
\* only configuration the CPU interface supports), with IAFFID 0.
arm_current_el == 1
gicv5_logical_domain == GICV5_ID_NS
gicv5_current_phys_domain ==
    IF arm_current_el = 3 THEN GICV5_ID_EL3 ELSE gicv5_logical_domain

IdleIrq == [intid |-> {}, prio |-> PRIO_IDLE]

\* a gic_running_prio that takes the highest set bit of the APR
gic_running_prio_highest_bit(c, domain) ==
    IF c.icc_apr[domain] \cap W32 = {} THEN PRIO_IDLE
    ELSE CHOOSE b \in c.icc_apr[domain] \cap W32 :
           \A x \in c.icc_apr[domain] \cap W32 : x <= b

\* gic_running_prio
gic_running_prio(c, domain) ==
    IF c.icc_apr[domain] = {} THEN PRIO_IDLE
    ELSE LET hap == ctz64(c.icc_apr[domain]) IN IF hap < 32 THEN hap ELSE PRIO_IDLE

\* the INTID word of an interrupt
MakeIntid(type, id) == FIELD_DP(FIELD_DP({}, INTID_ID, BitsOf(id)), INTID_TYPE, BitsOf(type))

\* gicv5_get_hppi: the best interrupt the IRS holds for this CPU in the
\* domain, by an eager scan of the SPIs and of the cached (pending) LPIs:
\* enabled, pending, not active and targeted at iaffid; the least priority
\* value wins, and among equals the least INTID word.
IrsCandidates(s, cache, domain, iaffid) ==
    {[intid |-> MakeIntid(GICV5_SPI, i), prio |-> Val(s[i].priority)] :
        i \in {j \in SpiIds : /\ s[j].domain = domain
                              /\ s[j].enabled /\ s[j].pending /\ ~s[j].active
                              /\ s[j].iaffid = iaffid}}
    \cup
    {[intid |-> MakeIntid(GICV5_LPI, i),
      prio |-> Val(FIELD_EX(cache[domain][i], L2_ISTE_PRIORITY))] :
        i \in {j \in DOMAIN cache[domain] :
                 /\ FIELD_EX(cache[domain][j], L2_ISTE_ENABLE) # {}
                 /\ FIELD_EX(cache[domain][j], L2_ISTE_PENDING) # {}
                 /\ FIELD_EX(cache[domain][j], L2_ISTE_ACTIVE) = {}
                 /\ FIELD_EX(cache[domain][j], L2_ISTE_IAFFID) = iaffid}}

IntidKey(w) == Val(FIELD_EX(w, INTID_ID)) + 2^24 * Val(FIELD_EX(w, INTID_TYPE))

gicv5_get_hppi(s, cache, domain, iaffid) ==
    LET cands == IrsCandidates(s, cache, domain, iaffid) IN
    IF cands = {} THEN IdleIrq
    ELSE CHOOSE b \in cands :
           \A o \in cands : \/ b.prio < o.prio
                            \/ b.prio = o.prio /\ IntidKey(b.intid) <= IntidKey(o.intid)

\* a gic_hppi that gives a tie between the best PPI and the IRS HPPI to the IRS
gic_hppi_ties_to_irs(c, s, cache, domain) ==
    IF FIELD_EX(c.icc_cr0[domain], ICC_CR0_EN) = {} THEN IdleIrq
    ELSE LET irs_hppi == gicv5_get_hppi(s, cache, domain, gicv5_iaffid)
             best == IF c.ppi_hppi[domain].prio < irs_hppi.prio
                     THEN c.ppi_hppi[domain] ELSE irs_hppi
         IN  IF \/ best.prio = PRIO_IDLE
                \/ best.prio > Val(c.icc_pcr[domain])
                \/ best.prio >= gic_running_prio(c, domain)
             THEN IdleIrq
             ELSE [best EXCEPT !.intid = (@ \cup FieldMask(ICC_HPPIR_EL1_HPPIV)) \cap W32]

\* gic_hppi: GICv5PendingIrq.intid is a uint32_t, so the HPPIV bit (bit 32)
\* ORed into it is lost in the store
gic_hppi(c, s, cache, domain) ==
    IF FIELD_EX(c.icc_cr0[domain], ICC_CR0_EN) = {} THEN IdleIrq
    ELSE LET irs_hppi == gicv5_get_hppi(s, cache, domain, gicv5_iaffid)
             best == IF c.ppi_hppi[domain].prio <= irs_hppi.prio
                     THEN c.ppi_hppi[domain] ELSE irs_hppi
         IN  IF \/ best.prio = PRIO_IDLE
                \/ best.prio > Val(c.icc_pcr[domain])
                \/ best.prio >= gic_running_prio(c, domain)
             THEN IdleIrq
             ELSE [best EXCEPT !.intid = (@ \cup FieldMask(ICC_HPPIR_EL1_HPPIV)) \cap W32]

\* a gicv5_update_irq_fiq that signals IRQ for a Superpriority HPPI as well
gicv5_update_irq_fiq_irq_with_nmi(c, s, cache) ==
    LET current_hppi == gic_hppi(c, s, cache, gicv5_current_phys_domain) IN
    {l \in {"CPU_INTERRUPT_HARD", "CPU_INTERRUPT_NMI"} :
       \/ l = "CPU_INTERRUPT_HARD" /\ current_hppi.prio # PRIO_IDLE
       \/ l = "CPU_INTERRUPT_NMI" /\ current_hppi.prio = 0}

\* gicv5_update_irq_fiq with cpu_interrupt_update: the CPU_INTERRUPT_* lines
\* raised afterwards
gicv5_update_irq_fiq(c, s, cache) ==
    LET current_hppi == gic_hppi(c, s, cache, gicv5_current_phys_domain)
        fiq == FALSE
        superpriority == current_hppi.prio = 0
        irq == current_hppi.prio # PRIO_IDLE /\ ~superpriority
    IN  {l \in {"CPU_INTERRUPT_HARD", "CPU_INTERRUPT_FIQ", "CPU_INTERRUPT_NMI"} :
           \/ l = "CPU_INTERRUPT_HARD" /\ irq
           \/ l = "CPU_INTERRUPT_FIQ" /\ fiq
           \/ l = "CPU_INTERRUPT_NMI" /\ superpriority}

-----------------------------------------------------------------------------
(* CPU interface: PPI state *)

\* en_pend_nact &= ~(1 << bit): the 1 is an int.  Below bit 31 this clears
\* the bit; for bit 31 the int is INT_MIN (-fwrapv) and its complement sign
\* extends to a mask that clears bits 31..63; from bit 32 on the shift is
\* undefined: the word is left as it was (the count taken modulo 32, or the
\* shift giving 0) or the bit is cleared (a 64-bit shift).
ClearScanned(w, bit) ==
    IF bit < 31 THEN {w \ {bit}}
    ELSE IF bit = 31 THEN {w \ MAKE_64BIT_MASK(31, 33)}
    ELSE {w, w \ {bit}}

RECURSIVE PpiScan(_, _, _, _)
\* the while loop of gic_recalc_ppi_hppi over register i; a pass that leaves
\* en_pend_nact as it found it repeats for ever
PpiScan(c, i, en_pend_nact, hppi) ==
    IF en_pend_nact = {} THEN {[hang |-> FALSE, ppi_hppi |-> hppi]}
    ELSE LET ppi_domain == GICV5_ID_NS
             bit == ctz64(en_pend_nact)
             ppi == i * 64 + bit
             prio == Val(FIELD_EX(c.ppi_priority[ppi \div 8], <<(ppi % 8) * 8, 5>>))
             next == IF prio < hppi[ppi_domain].prio
                     THEN [hppi EXCEPT ![ppi_domain] =
                              [intid |-> MakeIntid(GICV5_PPI, ppi), prio |-> prio]]
                     ELSE hppi
         IN  UNION {IF w = en_pend_nact THEN {[hang |-> TRUE, ppi_hppi |-> next]}
                    ELSE PpiScan(c, i, w, next) : w \in ClearScanned(en_pend_nact, bit)}

\* the outcomes of the two loops of gic_recalc_ppi_hppi
PpiHppiOutcomes(c) ==
    LET en_pend_nact(i) == (c.ppi_enable[i] \cap c.ppi_pend[i]) \ c.ppi_active[i]
        first == PpiScan(c, 0, en_pend_nact(0), [d \in Domains |-> IdleIrq])
    IN  UNION {IF o.hang THEN {o} ELSE PpiScan(c, 1, en_pend_nact(1), o.ppi_hppi) :
               o \in first}

\* gic_recalc_ppi_hppi on the CPU interface state c, the wake lines included
gic_recalc_ppi_hppi(c) ==
    \E o \in PpiHppiOutcomes(c) :
        /\ gicv5_cpuif' = [c EXCEPT !.ppi_hppi = o.ppi_hppi]
        /\ IF o.hang
           THEN aborted' = TRUE /\ UNCHANGED interrupt_request
           ELSE /\ interrupt_request' = gicv5_update_irq_fiq(gicv5_cpuif', spi, lpi_cache)
                /\ UNCHANGED aborted

IrsVars == <<IstVars, spi, expect_mem>>

\* gicv5_update_ppi_state: a CPU-internal interrupt source changes its line
gicv5_update_ppi_state(ppi, level) ==
    /\ ~aborted
    /\ UNCHANGED SelVars
    /\ last_op' = [op |-> "gicv5_update_ppi_state", ppi |-> ppi, level |-> level]
    /\ IF ~(ppi >= 0 /\ ppi < 64)
       THEN aborted' = TRUE /\ UNCHANGED <<gicv5_cpuif, interrupt_request>>
       ELSE IF (ppi \in gicv5_cpuif.ppi_pend[0]) # level
       THEN gic_recalc_ppi_hppi([gicv5_cpuif EXCEPT
                !.ppi_pend[0] = FIELD_DP(@, <<ppi, 1>>, Bit(level))])
       ELSE UNCHANGED <<gicv5_cpuif, interrupt_request, aborted>>
    /\ UNCHANGED <<IrsVars, sctlr_nmi>>

PpiRegWrite(name, n, value, c) ==
    /\ ~aborted
    /\ UNCHANGED SelVars
    /\ last_op' = [op |-> name, n |-> n, value |-> value]
    /\ gic_recalc_ppi_hppi(c)
    /\ UNCHANGED <<IrsVars, sctlr_nmi>>

\* ICC_PPI_CACTIVER<n>_EL1
gic_ppi_cactive_write(n, value) ==
    PpiRegWrite("gic_ppi_cactive_write", n, value,
                [gicv5_cpuif EXCEPT !.ppi_active[n] = @ \ value])

\* ICC_PPI_SACTIVER<n>_EL1
gic_ppi_sactive_write(n, value) ==
    PpiRegWrite("gic_ppi_sactive_write", n, value,
                [gicv5_cpuif EXCEPT !.ppi_active[n] = @ \cup value])

\* a CPENDR write that clears the pending bits of Level PPIs as well
gic_ppi_cpend_write_any_hm(n, value) ==
    PpiRegWrite("gic_ppi_cpend_write", n, value,
                [gicv5_cpuif EXCEPT !.ppi_pend[n] = @ \ value])

\* ICC_PPI_CPENDR<n>_EL1 (opc2 4 and 5, so opc2 & 1 is n)
gic_ppi_cpend_write(n, value) ==
    LET hm == gicv5_cpuif.ppi_hm[n] IN
    PpiRegWrite("gic_ppi_cpend_write", n, value,
                [gicv5_cpuif EXCEPT !.ppi_pend[n] = @ \ (value \ hm)])

\* ICC_PPI_SPENDR<n>_EL1 (opc2 6 and 7, so opc2 & 1 is n)
gic_ppi_spend_write(n, value) ==
    LET hm == gicv5_cpuif.ppi_hm[n] IN
    PpiRegWrite("gic_ppi_spend_write", n, value,
                [gicv5_cpuif EXCEPT !.ppi_pend[n] = @ \cup (value \ hm)])

\* ICC_PPI_ENABLER<n>_EL1
gic_ppi_enable_write(n, value) ==
    PpiRegWrite("gic_ppi_enable_write", n, value,
                [gicv5_cpuif EXCEPT !.ppi_enable[n] = value])

\* ICC_PPI_PRIORITYR<n>_EL1
gic_ppi_priority_write(n, value) ==
    PpiRegWrite("gic_ppi_priority_write", n, value,
                [gicv5_cpuif EXCEPT !.ppi_priority[n] = value])

-----------------------------------------------------------------------------
(* CPU interface: priority mask, active priorities, control *)

\* ICC_APR_EL1
gic_icc_apr_el1_write(value) ==
    LET domain == gicv5_logical_domain IN
    /\ ~aborted
    /\ UNCHANGED SelVars
    /\ last_op' = [op |-> "gic_icc_apr_el1_write", value |-> value]
    /\ gicv5_cpuif' = [gicv5_cpuif EXCEPT !.icc_apr[domain] = value \cap W32]
    /\ UNCHANGED <<IrsVars, interrupt_request, sctlr_nmi, aborted>>

\* ICC_CR0_EL1
gic_icc_cr0_el1_write(value) ==
    LET domain == gicv5_logical_domain IN
    /\ ~aborted
    /\ UNCHANGED SelVars
    /\ last_op' = [op |-> "gic_icc_cr0_el1_write", value |-> value]
    /\ gicv5_cpuif' = [gicv5_cpuif EXCEPT !.icc_cr0[domain] =
            (value \cap FieldMask(ICC_CR0_EN))
            \cup FieldMask(ICC_CR0_LINK) \cup FieldMask(ICC_CR0_LINK_IDLE)]
    /\ interrupt_request' = gicv5_update_irq_fiq(gicv5_cpuif', spi, lpi_cache)
    /\ UNCHANGED <<IrsVars, sctlr_nmi, aborted>>

\* ICC_PCR_EL1
gic_icc_pcr_el1_write(value) ==
    LET domain == gicv5_logical_domain IN
    /\ ~aborted
    /\ UNCHANGED SelVars
    /\ last_op' = [op |-> "gic_icc_pcr_el1_write", value |-> value]
    /\ gicv5_cpuif' = [gicv5_cpuif EXCEPT !.icc_pcr[domain] =
            value \cap FieldMask(ICC_PCR_PRIORITY)]
    /\ UNCHANGED <<IrsVars, interrupt_request, sctlr_nmi, aborted>>

\* ICC_HPPIR_EL1 read; ret is the value read
gic_icc_hppir_el1_read ==
    LET domain == gicv5_logical_domain
        hppi == gic_hppi(gicv5_cpuif, spi, lpi_cache, domain)
    IN  /\ ~aborted
        /\ UNCHANGED SelVars
        /\ last_op' = [op |-> "gic_icc_hppir_el1_read", ret |-> hppi.intid]
        /\ UNCHANGED <<IrsVars, CpuVars, aborted>>

\* a gic_hppi_is_nmi that takes Superpriority alone for NMI
gic_hppi_is_nmi_prio_only(hppi, domain) == hppi.prio = 0

\* gic_hppi_is_nmi
gic_hppi_is_nmi(hppi, domain) == hppi.prio = 0 /\ sctlr_nmi

\* the guest writes SCTLR_EL1.NMI
sctlr_el1_write(nmi) ==
    /\ ~aborted
    /\ UNCHANGED SelVars
    /\ last_op' = [op |-> "sctlr_el1_write", nmi |-> nmi]
    /\ sctlr_nmi' = nmi
    /\ UNCHANGED <<IrsVars, gicv5_cpuif, interrupt_request, aborted>>

\* GIC CDEOI: priority drop
gic_cdeoi_write(value) ==
    LET domain == gicv5_current_phys_domain
        apr == gicv5_cpuif.icc_apr[domain]
    IN  /\ ~aborted
        /\ UNCHANGED SelVars
        /\ last_op' = [op |-> "gic_cdeoi_write", value |-> value]
        /\ gicv5_cpuif' = [gicv5_cpuif EXCEPT !.icc_apr[domain] =
                IF apr = {} THEN {} ELSE apr \ {ctz64(apr)}]
        /\ interrupt_request' = gicv5_update_irq_fiq(gicv5_cpuif', spi, lpi_cache)
        /\ UNCHANGED <<IrsVars, sctlr_nmi, aborted>>

-----------------------------------------------------------------------------
(* Acknowledge and deactivate *)

\* The stream command found the interrupt it names
IrsReaches(id, domain, type, virtual) ==
    /\ ~virtual
    /\ \/ type = GICV5_SPI /\ gicv5_spi_state(id, domain)
       \/ type = GICV5_LPI
          /\ get_l2_iste(phys_lpi_config[domain], lpi_cache[domain], mem, id).ok

\* An LPI command that replaces the L2 ISTE word by NewWord(word)
LpiRewrite(domain, id, NewWord(_)) ==
    LET cfg == phys_lpi_config[domain]
        h == get_l2_iste(cfg, lpi_cache[domain], mem, id)
        a == get_l2_iste_addr(cfg, mem, id)
    IN  IF ~h.ok
        THEN UNCHANGED <<lpi_cache, mem, expect_mem>>
        ELSE LET w == NewWord(h.l2_iste)
                 r == put_l2_iste(cfg, lpi_cache[domain], mem, h, w)
             IN  /\ lpi_cache' = [lpi_cache EXCEPT ![domain] = r.cache]
                 /\ mem' = r.mem
                 /\ expect_mem' = IF a.ok /\ MemOk32(mem, a.addr)
                                  THEN [expect_mem EXCEPT ![a.addr] = NewWord(@)]
                                  ELSE expect_mem

\* the L2 ISTE word / the SPI of an interrupt made active
ActivatedWord(w) ==
    LET act == FIELD_DP(w, L2_ISTE_ACTIVE, {0}) IN
    IF FIELD_EX(w, L2_ISTE_HM) = BitsOf(GICV5_EDGE)
    THEN FIELD_DP(act, L2_ISTE_PENDING, {}) ELSE act
ActivatedSpi(s) ==
    [s EXCEPT !.active = TRUE, !.pending = IF s.hm = GICV5_EDGE THEN FALSE ELSE @]

\* the wake logic the IRS calls back into once a command has changed state
gicv5_forward_interrupt(found) ==
    IF found
    THEN interrupt_request' = gicv5_update_irq_fiq(gicv5_cpuif', spi', lpi_cache')
    ELSE UNCHANGED interrupt_request

\* gicv5_activate: sets ACTIVE and, for handling mode Edge, clears PENDING;
\* the IRS state afterwards
gicv5_activate(id, domain, type, virtual) ==
    /\ IF type = GICV5_SPI /\ IrsReaches(id, domain, type, virtual)
       THEN spi' = [spi EXCEPT ![id] = ActivatedSpi(@)]
       ELSE UNCHANGED spi
    /\ IF type = GICV5_LPI /\ ~virtual
       THEN LpiRewrite(domain, id, ActivatedWord)
       ELSE UNCHANGED <<lpi_cache, mem, expect_mem>>
    /\ UNCHANGED <<irs_ist_baser, irs_ist_cfgr, phys_lpi_config>>

\* gicv5_deactivate: clears ACTIVE; the IRS state afterwards
DeactivatedWord(w) == FIELD_DP(w, L2_ISTE_ACTIVE, {})
gicv5_deactivate(id, domain, type, virtual) ==
    /\ IF type = GICV5_SPI /\ IrsReaches(id, domain, type, virtual)
       THEN spi' = [spi EXCEPT ![id].active = FALSE]
       ELSE UNCHANGED spi
    /\ IF type = GICV5_LPI /\ ~virtual
       THEN LpiRewrite(domain, id, DeactivatedWord)
       ELSE UNCHANGED <<lpi_cache, mem, expect_mem>>
    /\ UNCHANGED <<irs_ist_baser, irs_ist_cfgr, phys_lpi_config>>

\* uint32_t ppibit = 1 << (id % 64): from id % 64 = 32 on the shift of the
\* int 1 is undefined; the count is taken modulo 32, or the result is 0
PpiBit(id) ==
    LET n == id % 64 IN IF n < 32 THEN {{n}} ELSE {{n - 32}, {}}

\* 1 << hppi.prio converted to uint64_t: the int INT_MIN sign extends
AprBit(prio) == IF prio = 31 THEN MAKE_64BIT_MASK(31, 33) ELSE {prio}

\* GICR CDIA (cdnmia = FALSE) and GICR CDNMIA (cdnmia = TRUE); ret is the
\* value the read returns
gicr_cdia_read(cdnmia) ==
    LET domain == gicv5_current_phys_domain
        hppi == gic_hppi(gicv5_cpuif, spi, lpi_cache, domain)
        type == Val(FIELD_EX(hppi.intid, INTID_TYPE))
        id == Val(FIELD_EX(hppi.intid, INTID_ID))
        op(ret) == [op |-> "gicr_cdia_read", cdnmia |-> cdnmia, hppi |-> hppi,
                    ret |-> ret]
        acked == [gicv5_cpuif EXCEPT !.icc_apr[domain] = @ \cup AprBit(hppi.prio)]
    IN
    /\ ~aborted
    /\ UNCHANGED SelVars
    /\ UNCHANGED sctlr_nmi
    /\ IF hppi.intid = {} \/ gic_hppi_is_nmi(hppi, domain) # cdnmia
       THEN /\ last_op' = op({})
            /\ UNCHANGED <<IrsVars, gicv5_cpuif, interrupt_request, aborted>>
       ELSE /\ last_op' = op(hppi.intid \cup FieldMask(GICR_CDIA_VALID))
            /\ CASE type = GICV5_PPI ->
                      /\ IF id < GICV5_NUM_PPIS
                         THEN \E ppibit \in PpiBit(id) :
                                LET ppireg == id \div 64 IN
                                gic_recalc_ppi_hppi([acked EXCEPT
                                    !.ppi_active[ppireg] = @ \cup ppibit,
                                    !.ppi_pend[ppireg] =
                                        IF acked.ppi_hm[ppireg] \cap ppibit = {}
                                        THEN @ \cap (W32 \ ppibit) ELSE @])
                         ELSE /\ aborted' = TRUE
                              /\ gicv5_cpuif' = acked
                              /\ UNCHANGED interrupt_request
                      /\ UNCHANGED IrsVars
                 [] type \in {GICV5_LPI, GICV5_SPI} ->
                      /\ gicv5_cpuif' = acked
                      /\ gicv5_activate(id, domain, type, FALSE)
                      /\ gicv5_forward_interrupt(IrsReaches(id, domain, type, FALSE))
                      /\ UNCHANGED aborted
                 [] OTHER ->
                      /\ aborted' = TRUE
                      /\ gicv5_cpuif' = acked
                      /\ UNCHANGED <<IrsVars, interrupt_request>>

\* GIC CDDI: deactivate
gic_cddi_write(value) ==
    LET domain == gicv5_current_phys_domain
        type == Val(FIELD_EX(value, GIC_CDDI_TYPE))
        id == Val(FIELD_EX(value, GIC_CDDI_ID))
        virtual == FALSE
    IN
    /\ ~aborted
    /\ UNCHANGED SelVars
    /\ last_op' = [op |-> "gic_cddi_write", value |-> value]
    /\ UNCHANGED sctlr_nmi
    /\ CASE type = GICV5_PPI ->
              /\ IF id >= GICV5_NUM_PPIS
                 THEN UNCHANGED <<gicv5_cpuif, interrupt_request, aborted>>
                 ELSE \E ppibit \in PpiBit(id) :
                        gic_recalc_ppi_hppi([gicv5_cpuif EXCEPT
                            !.ppi_active[id \div 64] = @ \cap (W32 \ ppibit)])
              /\ UNCHANGED IrsVars
         [] type \in {GICV5_LPI, GICV5_SPI} ->
              /\ UNCHANGED <<gicv5_cpuif, aborted>>
              /\ gicv5_deactivate(id, domain, type, virtual)
              /\ gicv5_forward_interrupt(IrsReaches(id, domain, type, virtual))
         [] OTHER -> UNCHANGED <<IrsVars, gicv5_cpuif, interrupt_request, aborted>>

-----------------------------------------------------------------------------
(* Initial state: the device realized and reset, the guest about to run *)

\* Guest RAM as the guest may have prepared it before programming the IRS:
\* all zeroes, or an L1 table at Page0 whose entry 0 is valid and points to
\* Page1 and whose entry 1 points to Page2 but is not valid yet.
ZeroMem == [a \in RamAddrs |-> {}]
L1TableMem == [ZeroMem EXCEPT ![Page0] = Page1 \cup {0}, ![AddOff(Page0, 8)] = Page2]
InitMems == {ZeroMem, L1TableMem}

\* g_new0 / object allocation: every field zero
ZeroConfig ==
    [base |-> {}, txattrs |-> [space |-> 0, secure |-> FALSE], id_bits |-> 0,
     istsz |-> 0, l2_idx_bits |-> 0, structure |-> FALSE, valid |-> FALSE]

InitIRS ==
    /\ irs_spi_selr = [d \in Domains |-> {}]
    /\ irs_pe_selr = [d \in Domains |-> {}]
    /\ irs_ist_baser = [d \in Domains |-> {}]
    /\ irs_ist_cfgr = [d \in Domains |-> {}]
    /\ phys_lpi_config = [d \in Domains |-> ZeroConfig]
    /\ lpi_cache = [d \in Domains |-> EmptyCache]
    /\ spi = ResetSpi
    /\ aborted = FALSE
    /\ mem \in InitMems
    /\ expect_mem = mem
    /\ last_op = [op |-> "init"]
    /\ nops = 0

\* The CPU interface after CPU reset: the register reset values, no PPI
\* pending and so no cached best PPI
InitCPU ==
    /\ gicv5_cpuif =
          [icc_cr0 |-> [d \in Domains |->
                          FieldMask(ICC_CR0_LINK) \cup FieldMask(ICC_CR0_LINK_IDLE)],
           icc_pcr |-> [d \in Domains |-> {}],
           icc_apr |-> [d \in Domains |-> {}],
           ppi_enable |-> [n \in PpiRegs |-> {}],
           ppi_pend |-> [n \in PpiRegs |-> {}],
           ppi_active |-> [n \in PpiRegs |-> {}],
           ppi_hm |-> [n \in PpiRegs |-> IF n = 0 THEN PPI_HMR0_RESET ELSE PPI_HMR1_RESET],
           ppi_priority |-> [n \in 0..(NUM_PPI_PRIORITY_REGS - 1) |-> {}],
           ppi_hppi |-> [d \in Domains |-> IdleIrq]]
    /\ interrupt_request = {}
    /\ sctlr_nmi = FALSE

Init == InitIRS /\ InitCPU

vars == <<irs_spi_selr, irs_pe_selr, irs_ist_baser, irs_ist_cfgr, phys_lpi_config, lpi_cache, mem, spi, aborted,
          gicv5_cpuif, interrupt_request, sctlr_nmi, expect_mem, last_op, nops>>

-----------------------------------------------------------------------------
(* The IST and the LPI cache under LPI stream commands and register writes *)

\* the longest run of operations explored
MaxOps == 5
Tick == nops < MaxOps /\ nops' = nops + 1

PrioValues == {{3}, {0, 5}}
IaffidValues == {{0}}
BaserValues == {Page0 \cup {0}, Page0}
CfgrValues == {{}, {16}}
MapValues == {{10}}

IstRegWrites ==
    {<<A_IRS_IST_BASER, v, 8>> : v \in BaserValues}
    \cup {<<A_IRS_IST_CFGR, v, 4>> : v \in CfgrValues}
    \cup {<<A_IRS_MAP_L2_ISTR, v, 4>> : v \in MapValues}

NextIST ==
    \/ \E id \in LpiIds, priority \in PrioValues :
          Tick /\ gicv5_set_priority(id, priority, GICV5_ID_NS, GICV5_LPI, FALSE)
    \/ \E id \in LpiIds, enabled \in BOOLEAN :
          Tick /\ gicv5_set_enabled(id, enabled, GICV5_ID_NS, GICV5_LPI, FALSE)
    \/ \E id \in LpiIds, pending \in BOOLEAN :
          Tick /\ gicv5_set_pending(id, pending, GICV5_ID_NS, GICV5_LPI, FALSE)
    \/ \E id \in LpiIds, handling \in {GICV5_EDGE, GICV5_LEVEL} :
          Tick /\ gicv5_set_handling(id, handling, GICV5_ID_NS, GICV5_LPI, FALSE)
    \/ \E id \in LpiIds, iaffid \in IaffidValues :
          Tick /\ gicv5_set_target(id, iaffid, GICV5_TARGETED, GICV5_ID_NS, GICV5_LPI, FALSE)
    \/ \E w \in IstRegWrites : Tick /\ config_write(GICV5_ID_NS, w[1], w[2], w[3])
    \/ Tick /\ gicv5_reset_hold

SpecIST == Init /\ [][NextIST]_vars

-----------------------------------------------------------------------------
(* The IST registers under every kind of write *)

BaserLoValues == {{30, 0}, {30}}
BaserHiValues == {{}, {0}}
RegWrites ==
    {<<A_IRS_IST_BASER, v, 8>> : v \in BaserValues \cup {Page1 \cup {0}}}
    \cup {<<A_IRS_IST_BASER, v, 4>> : v \in BaserLoValues}
    \cup {<<A_IRS_IST_BASER + 4, v, 4>> : v \in BaserHiValues}
    \cup {<<A_IRS_IST_CFGR, v, 4>> : v \in CfgrValues \cup {{7}}}
    \cup {<<A_IRS_MAP_L2_ISTR, v, 4>> : v \in MapValues}

NextReg ==
    \/ \E id \in {0, 1024}, pending \in BOOLEAN :
          Tick /\ gicv5_set_pending(id, pending, GICV5_ID_NS, GICV5_LPI, FALSE)
    \/ \E w \in RegWrites : Tick /\ config_write(GICV5_ID_NS, w[1], w[2], w[3])
    \/ Tick /\ gicv5_reset_hold

SpecReg == Init /\ [][NextReg]_vars

-----------------------------------------------------------------------------
(* The CPU interface under PPI lines, system register accesses and one SPI *)

PpiLines == {30, 40}
PpiMasks == {{GICV5_PPI_SW_PPI}, {GICV5_PPI_SW_PPI, 30}}
\* ICC_PPI_PRIORITYR0_EL1 with priority 8 for PPI 3, ICC_PPI_PRIORITYR3_EL1
\* with priority 4 for PPI 30
PpiPriorityWrites == {<<0, {27}>>, <<3, {50}>>}
AprValues == {{4}}
Cr0Values == {{0}, {}}
PcrValues == {{3}, {0, 1, 2, 3, 4}}
CddiValues == {MakeIntid(GICV5_PPI, GICV5_PPI_SW_PPI), MakeIntid(GICV5_SPI, spi_base)}

NextCPU ==
    \/ \E ppi \in PpiLines, level \in BOOLEAN : Tick /\ gicv5_update_ppi_state(ppi, level)
    \/ \E v \in PpiMasks : Tick /\ gic_ppi_enable_write(0, v)
    \/ Tick /\ gic_ppi_spend_write(0, {GICV5_PPI_SW_PPI, 30})
    \/ Tick /\ gic_ppi_cpend_write(0, {GICV5_PPI_SW_PPI, 30})
    \/ Tick /\ gic_ppi_sactive_write(0, {30})
    \/ Tick /\ gic_ppi_cactive_write(0, {GICV5_PPI_SW_PPI, 30})
    \/ \E w \in PpiPriorityWrites : Tick /\ gic_ppi_priority_write(w[1], w[2])
    \/ \E v \in AprValues : Tick /\ gic_icc_apr_el1_write(v)
    \/ \E v \in Cr0Values : Tick /\ gic_icc_cr0_el1_write(v)
    \/ \E v \in PcrValues : Tick /\ gic_icc_pcr_el1_write(v)
    \/ \E nmi \in BOOLEAN : Tick /\ sctlr_el1_write(nmi)
    \/ \E cdnmia \in BOOLEAN : Tick /\ gicr_cdia_read(cdnmia)
    \/ Tick /\ gic_cdeoi_write({})
    \/ \E v \in CddiValues : Tick /\ gic_cddi_write(v)
    \/ \E level \in BOOLEAN : Tick /\ gicv5_set_spi(0, level)
    \/ Tick /\ gicv5_set_enabled(spi_base, TRUE, GICV5_ID_NS, GICV5_SPI, FALSE)

\* the guest RAM plays no part here: it starts zeroed
InitZeroMem == Init /\ mem = ZeroMem

SpecCPU == InitZeroMem /\ [][NextCPU]_vars

-----------------------------------------------------------------------------
(* Acknowledge and priority drop over the whole priority range *)

\* the longest run of CPU interface operations explored here
MaxCpuOps == 8
CpuTick == nops < MaxCpuOps /\ nops' = nops + 1

\* ICC_PPI_PRIORITYR0_EL1 with priority 31 for PPI 3, ICC_PPI_PRIORITYR3_EL1
\* with priority 4 for PPI 30
AckPriorityWrites == {<<0, {24, 25, 26, 27, 28}>>, <<3, {50}>>}

NextAPR ==
    \/ \E level \in BOOLEAN : CpuTick /\ gicv5_update_ppi_state(30, level)
    \/ CpuTick /\ gic_ppi_enable_write(0, {GICV5_PPI_SW_PPI, 30})
    \/ CpuTick /\ gic_ppi_spend_write(0, {GICV5_PPI_SW_PPI})
    \/ \E w \in AckPriorityWrites : CpuTick /\ gic_ppi_priority_write(w[1], w[2])
    \/ CpuTick /\ gic_icc_apr_el1_write({2, 40})
    \/ CpuTick /\ gic_icc_cr0_el1_write({0})
    \/ CpuTick /\ gic_icc_pcr_el1_write({0, 1, 2, 3, 4})
    \/ CpuTick /\ gicr_cdia_read(FALSE)
    \/ CpuTick /\ gic_cdeoi_write({})
    \/ CpuTick /\ gic_icc_hppir_el1_read

SpecAPR == InitZeroMem /\ [][NextAPR]_vars

-----------------------------------------------------------------------------
(* The stream commands and the resample register on SPIs and one LPI *)

\* an SPI id above the range of this IRS
FarSpi == spi_base + spi_irs_range + 2
\* <<type, id>> of the interrupts the commands name
CmdTargets == {<<GICV5_SPI, spi_base>>, <<GICV5_SPI, FarSpi>>, <<GICV5_LPI, 0>>}
CmdPrioValues == {{3}, {0, 1, 2, 3, 4}}
ResampleValues == {BitsOf(spi_base), BitsOf(FarSpi)}

\* the longest run of commands explored
MaxCmdOps == 4
CmdTick == nops < MaxCmdOps /\ nops' = nops + 1

NextSPI ==
    \/ \E t \in CmdTargets, priority \in CmdPrioValues :
          CmdTick /\ gicv5_set_priority(t[2], priority, GICV5_ID_NS, t[1], FALSE)
    \/ \E t \in CmdTargets, enabled \in BOOLEAN :
          CmdTick /\ gicv5_set_enabled(t[2], enabled, GICV5_ID_NS, t[1], FALSE)
    \/ \E t \in CmdTargets, pending \in BOOLEAN :
          CmdTick /\ gicv5_set_pending(t[2], pending, GICV5_ID_NS, t[1], FALSE)
    \/ \E t \in CmdTargets, handling \in {GICV5_EDGE, GICV5_LEVEL} :
          CmdTick /\ gicv5_set_handling(t[2], handling, GICV5_ID_NS, t[1], FALSE)
    \/ \E t \in CmdTargets, iaffid \in IaffidValues :
          CmdTick /\ gicv5_set_target(t[2], iaffid, GICV5_TARGETED, GICV5_ID_NS, t[1], FALSE)
    \/ \E t \in CmdTargets :
          CmdTick /\ gicv5_request_config(t[2], GICV5_ID_NS, t[1], FALSE)
    \/ \E level \in BOOLEAN : CmdTick /\ gicv5_set_spi(0, level)
    \/ \E v \in ResampleValues :
          CmdTick /\ config_write(GICV5_ID_NS, A_IRS_SPI_RESAMPLER, v, 4)
    \/ CmdTick /\ config_write(GICV5_ID_NS, A_IRS_IST_BASER, Page0 \cup {0}, 8)

SpecSPI == InitZeroMem /\ [][NextSPI]_vars

-----------------------------------------------------------------------------
(* request_config against every state of the IST, and set_target *)

\* the longest run of operations explored
MaxCfgOps == 4
CfgTick == nops < MaxCfgOps /\ nops' = nops + 1

RoutingModes == {GICV5_TARGETED, GICV5_1OFN}
TargetIaffids == {{0}, {1, 15}}

NextICSR ==
    \/ \E w \in IstRegWrites : CfgTick /\ config_write(GICV5_ID_NS, w[1], w[2], w[3])
    \/ \E id \in LpiIds : CfgTick /\ gicv5_set_pending(id, TRUE, GICV5_ID_NS, GICV5_LPI, FALSE)
    \/ \E t \in CmdTargets, iaffid \in TargetIaffids, irm \in RoutingModes :
          CfgTick /\ gicv5_set_target(t[2], iaffid, irm, GICV5_ID_NS, t[1], FALSE)
    \/ \E id \in LpiIds, virtual \in BOOLEAN :
          CfgTick /\ gicv5_request_config(id, GICV5_ID_NS, GICV5_LPI, virtual)
    \/ \E id \in {spi_base, FarSpi} :
          CfgTick /\ gicv5_request_config(id, GICV5_ID_NS, GICV5_SPI, FALSE)

\* guest RAM in which the guest has stored an L2 ISTE with IRM = 1 for LPI 0
\* of a linear IST at Page0
IrmIsteMem == [ZeroMem EXCEPT ![Page0] = FieldMask(L2_ISTE_IRM)]

\* the state after construction, over the guest memories above
InitICSR ==
    /\ InitCPU
    /\ irs_spi_selr = [d \in Domains |-> {}]
    /\ irs_pe_selr = [d \in Domains |-> {}]
    /\ irs_ist_baser = [d \in Domains |-> {}]
    /\ irs_ist_cfgr = [d \in Domains |-> {}]
    /\ phys_lpi_config = [d \in Domains |-> ZeroConfig]
    /\ lpi_cache = [d \in Domains |-> EmptyCache]
    /\ spi = ResetSpi
    /\ aborted = FALSE
    /\ mem \in InitMems \cup {IrmIsteMem}
    /\ expect_mem = mem
    /\ last_op = [op |-> "init"]
    /\ nops = 0

SpecICSR == InitICSR /\ [][NextICSR]_vars

-----------------------------------------------------------------------------
(* SPI input lines, trigger mode and resampling *)

\* the longest run of operations explored
MaxSpiOps == 7
SpiTick == nops < MaxSpiOps /\ nops' = nops + 1

SelrValues == {BitsOf(spi_base), BitsOf(FarSpi)}
SpiCfgrValues == {{}, FieldMask(IRS_SPI_CFGR_TM)}

NextTM ==
    \/ \E irq \in 0..(spi_irs_range - 1), level \in BOOLEAN :
          SpiTick /\ gicv5_set_spi(irq, level)
    \/ \E v \in SelrValues : SpiTick /\ config_write(GICV5_ID_NS, A_IRS_SPI_SELR, v, 4)
    \/ \E v \in SpiCfgrValues : SpiTick /\ config_write(GICV5_ID_NS, A_IRS_SPI_CFGR, v, 4)
    \/ SpiTick /\ config_write(GICV5_ID_NS, A_IRS_SPI_RESAMPLER, BitsOf(spi_base), 4)
    \/ \E handling \in {GICV5_EDGE, GICV5_LEVEL} :
          SpiTick /\ gicv5_set_handling(spi_base, handling, GICV5_ID_NS, GICV5_SPI, FALSE)

SpecTM == InitZeroMem /\ [][NextTM]_vars

-----------------------------------------------------------------------------
(* Reads and writes of the config frame registers *)

\* the longest run of register accesses explored
MaxRegOps == 3
RegTick == nops < MaxRegOps /\ nops' = nops + 1

\* an offset between IRS_IDR7 and IRS_IIDR, where there is no register
A_RESERVED == A_IRS_IDR0 + 48
\* <<offset, size>> of the reads
RegReads ==
    {<<o, 4>> : o \in {A_IRS_IDR0, A_IRS_IST_BASER, A_IRS_IST_BASER + 4, A_IRS_IST_CFGR,
                       A_IRS_IST_STATUSR, A_IRS_SPI_STATUSR, A_IRS_SPI_CFGR,
                       A_IRS_PE_SELR, A_IRS_PE_STATUSR, A_IRS_MAP_L2_ISTR,
                       A_RESERVED}}
    \cup {<<A_IRS_IST_BASER, 8>>, <<A_IRS_IST_CFGR, 8>>, <<A_RESERVED, 8>>}
\* <<offset, data, size>> of the writes
FrameWrites ==
    {<<A_IRS_PE_SELR, v, 4>> : v \in {{}, {0}, {16}}}
    \cup {<<A_IRS_SPI_SELR, BitsOf(spi_base), 4>>, <<A_IRS_SPI_CFGR, {0}, 4>>,
          <<A_IRS_IST_CFGR, {16}, 4>>, <<A_IRS_IST_BASER, Page0 \cup {0}, 8>>}
    \cup {<<o, {0, 1, 2}, 4>> : o \in {A_RESERVED, A_IRS_IDR0, A_IRS_IST_STATUSR,
                                       A_IRS_SPI_STATUSR, A_IRS_PE_STATUSR}}
    \cup {<<A_IRS_IST_CFGR, {16}, 8>>, <<A_RESERVED, {0}, 8>>}

NextFrame ==
    \/ \E w \in FrameWrites : RegTick /\ config_write(GICV5_ID_NS, w[1], w[2], w[3])
    \/ \E r \in RegReads : RegTick /\ config_read(GICV5_ID_NS, r[1], {}, r[2])
    \/ \E level \in BOOLEAN : RegTick /\ gicv5_set_spi(0, level)

SpecFrame == InitZeroMem /\ [][NextFrame]_vars

-----------------------------------------------------------------------------
(* The capture of the IST config under every IRS_IST_CFGR encoding *)

\* the longest run of register writes explored
MaxCapOps == 2
CapTick == nops < MaxCapOps /\ nops' = nops + 1

\* LPI_ID_BITS below, inside and above the supported range
LpiIdBitsValues == {{}, {4}, {0, 1, 2, 3, 4}}
\* IRS_IST_CFGR values: every ISTSZ and L2SZ encoding, both structures
CapCfgrValues ==
    {FIELD_DP(FIELD_DP(FIELD_DP(FIELD_DP({}, IRS_IST_CFGR_LPI_ID_BITS, b),
                                IRS_IST_CFGR_L2SZ, BitsOf(l2sz)),
                       IRS_IST_CFGR_ISTSZ, BitsOf(istsz)),
              IRS_IST_CFGR_STRUCTURE, st)
     : b \in LpiIdBitsValues, l2sz \in 0..3, istsz \in 0..3, st \in {{}, {0}}}
\* <<offset, data, size>> of the IRS_IST_BASER writes
CapBaserWrites ==
    {<<A_IRS_IST_BASER, v, 8>> : v \in {Page0 \cup {0}, Page1 \cup {0, 3}, {}}}
    \cup {<<A_IRS_IST_BASER, v, 4>> : v \in BaserLoValues}
    \cup {<<A_IRS_IST_BASER + 4, {0}, 4>>}

NextCapture ==
    \/ \E v \in CapCfgrValues : CapTick /\ config_write(GICV5_ID_NS, A_IRS_IST_CFGR, v, 4)
    \/ \E w \in CapBaserWrites : CapTick /\ config_write(GICV5_ID_NS, w[1], w[2], w[3])

SpecCapture == InitZeroMem /\ [][NextCapture]_vars

-----------------------------------------------------------------------------
(* The PPI scan under PPIs on both sides of bit 31 *)

\* the longest run of PPI operations explored
MaxPpiOps == 4
PpiTick == nops < MaxPpiOps /\ nops' = nops + 1

\* CNTP, TRBIRQ and a PPI of the upper half of the first register
ScanLines == {30, 31, 40}
ScanMasks == {{30, 31, 40}, {31, 40}, {40}}
\* ICC_PPI_PRIORITYR3_EL1 with priority 4 for PPI 30 and 8 for PPI 31
ScanPriorityWrites == {<<3, {50, 59}>>}

\* GIC CDDI of PPI 30, of PPI 200 (there are 128 PPIs) and of the reserved
\* type 0
ScanCddiValues == {MakeIntid(GICV5_PPI, 30), MakeIntid(GICV5_PPI, 200), MakeIntid(0, 30)}

NextPPI ==
    \/ \E ppi \in ScanLines, level \in BOOLEAN :
          PpiTick /\ gicv5_update_ppi_state(ppi, level)
    \/ \E v \in ScanMasks : PpiTick /\ gic_ppi_enable_write(0, v)
    \/ \E w \in ScanPriorityWrites : PpiTick /\ gic_ppi_priority_write(w[1], w[2])
    \/ \E v \in {{30}, {40}} : PpiTick /\ gic_ppi_sactive_write(0, v)
    \/ \E v \in ScanCddiValues : PpiTick /\ gic_cddi_write(v)

SpecPPI == InitZeroMem /\ [][NextPPI]_vars

-----------------------------------------------------------------------------
(* LPI commands whose IST walk fails *)

\* the longest run of operations explored
MaxWalkOps == 3
WalkTick == nops < MaxWalkOps /\ nops' = nops + 1

\* IRS_IST_CFGR with LPI_ID_BITS = 16, linear and 2-level, and 2-level with
\* the minimum LPI_ID_BITS
WalkCfgrValues == {{4}, {4, 16}, {16}}

NextWalk ==
    \/ \E v \in WalkCfgrValues : WalkTick /\ config_write(GICV5_ID_NS, A_IRS_IST_CFGR, v, 4)
    \/ WalkTick /\ config_write(GICV5_ID_NS, A_IRS_IST_BASER, Page0 \cup {0}, 8)
    \/ \E id \in LpiIds :
          WalkTick /\ gicv5_set_priority(id, {3}, GICV5_ID_NS, GICV5_LPI, FALSE)
    \/ \E id \in LpiIds :
          WalkTick /\ gicv5_set_enabled(id, TRUE, GICV5_ID_NS, GICV5_LPI, FALSE)
    \/ \E id \in LpiIds :
          WalkTick /\ gicv5_set_pending(id, TRUE, GICV5_ID_NS, GICV5_LPI, FALSE)
    \/ \E id \in LpiIds :
          WalkTick /\ gicv5_set_handling(id, GICV5_LEVEL, GICV5_ID_NS, GICV5_LPI, FALSE)
    \/ \E id \in LpiIds :
          WalkTick /\ gicv5_set_target(id, {0}, GICV5_TARGETED, GICV5_ID_NS, GICV5_LPI, FALSE)

SpecWalk == Init /\ [][NextWalk]_vars

-----------------------------------------------------------------------------
(* Acknowledges after guest writes of ICC_APR_EL1 and ICC_PCR_EL1 *)

\* ICC_APR_EL1 values: a bit above the register, the lowest priority, and the
\* highest priority with another
AckAprValues == {{2, 40}, {31}, {0, 5}}
AckPcrValues == {{0, 1, 2, 3, 4}, {2}}

NextAck ==
    \/ \E level \in BOOLEAN : CpuTick /\ gicv5_update_ppi_state(30, level)
    \/ CpuTick /\ gic_ppi_enable_write(0, {GICV5_PPI_SW_PPI, 30})
    \/ CpuTick /\ gic_ppi_spend_write(0, {GICV5_PPI_SW_PPI})
    \/ \E w \in AckPriorityWrites : CpuTick /\ gic_ppi_priority_write(w[1], w[2])
    \/ \E v \in AckAprValues : CpuTick /\ gic_icc_apr_el1_write(v)
    \/ CpuTick /\ gic_icc_cr0_el1_write({0})
    \/ \E v \in AckPcrValues : CpuTick /\ gic_icc_pcr_el1_write(v)
    \/ CpuTick /\ gicr_cdia_read(FALSE)
    \/ CpuTick /\ gic_cdeoi_write({})

SpecAck == InitZeroMem /\ [][NextAck]_vars

-----------------------------------------------------------------------------
(* Properties of the IST and the LPI cache *)

\* the L2 ISTE word of an LPI as the IRS sees it: the cached word if there is
\* one, otherwise the word in guest memory at address a
EffectiveWord(d, id, a) ==
    IF id \in DOMAIN lpi_cache[d] THEN lpi_cache[d][id] ELSE mem[a]

\* the LPIs of a domain whose L2 ISTE the walker finds in guest RAM
Walkable(d) ==
    {id \in LpiIds :
        LET a == get_l2_iste_addr(phys_lpi_config[d], mem, id)
        IN  a.ok /\ MemOk32(mem, a.addr)}

L2Addr(d, id) == get_l2_iste_addr(phys_lpi_config[d], mem, id).addr

\* C1: with a valid IST and no memory fault, the effective L2 ISTE word of
\* every LPI (cache entry if any, else the memory word) is the result of the
\* LPI commands so far applied in order to the initial memory word; and once
\* the IST has been invalidated (cache flushed) guest memory alone holds it.
C1_EffectiveWordIsCommandsApplied ==
    /\ \A d \in Domains : \A id \in Walkable(d) :
          EffectiveWord(d, id, L2Addr(d, id)) = expect_mem[L2Addr(d, id)]
    /\ (\A d \in Domains : ~phys_lpi_config[d].valid) => mem = expect_mem

\* a flush has just written a pending word with a priority set while cached
C1_Witness ==
    /\ last_op.op = "config_write" /\ last_op.valid_before
    /\ ~phys_lpi_config[GICV5_ID_NS].valid
    /\ \E a \in RamAddrs : {0, 14} \subseteq mem[a] /\ mem[a] = expect_mem[a]

\* C2: for a domain with a valid IST the LPI cache holds an entry for an LPI
\* if and only if the LPI's effective L2 ISTE word has PENDING = 1.
C2_CacheEntryIffPending ==
    \A d \in Domains : \A id \in Walkable(d) :
        id \in DOMAIN lpi_cache[d]
          <=> FIELD_EX(EffectiveWord(d, id, L2Addr(d, id)), L2_ISTE_PENDING) # {}

IsBaserWrite(op) ==
    /\ op.op = "config_write"
    /\ \/ op.size = 8 /\ op.offset = A_IRS_IST_BASER
       \/ op.size = 4 /\ op.offset \in {A_IRS_IST_BASER, A_IRS_IST_BASER + 4}

\* the VALID bit of the 64-bit value a write to IRS_IST_BASER amounts to
WrittenValid(op) ==
    IF op.size = 4 /\ op.offset = A_IRS_IST_BASER + 4
    THEN op.valid_before
    ELSE 0 \in op.data

IsLpiCommand(op) ==
    /\ op.op \in {"gicv5_set_priority", "gicv5_set_enabled", "gicv5_set_pending",
                  "gicv5_set_handling", "gicv5_set_target"}
    /\ op.type = GICV5_LPI

\* C3: a write of VALID=0 to IRS_IST_BASER while VALID is 1 writes every
\* entry of the domain's LPI cache to its L2 ISTE address, leaves the cache
\* empty, VALID reading 0 and the config invalid; and while VALID is 0 the
\* LPI commands of that domain change nothing.
C3_InvalidateFlushesCache ==
    [][/\ (IsBaserWrite(last_op') /\ last_op'.valid_before /\ ~WrittenValid(last_op'))
          => LET d == last_op'.domain IN
             /\ \A id \in DOMAIN lpi_cache[d] :
                   /\ get_l2_iste_addr(phys_lpi_config[d], mem, id).ok
                   /\ mem'[L2Addr(d, id)] = lpi_cache[d][id]
             /\ lpi_cache'[d] = EmptyCache
             /\ FIELD_EX(irs_ist_baser'[d], IRS_IST_BASER_VALID) = {}
             /\ ~phys_lpi_config'[d].valid
       /\ (IsLpiCommand(last_op')
           /\ FIELD_EX(irs_ist_baser[last_op'.domain], IRS_IST_BASER_VALID) = {})
          => UNCHANGED <<IstVars, spi>>
      ]_vars

\* VALID has just been cleared and a cached pending word is now in memory
C3_Witness ==
    /\ IsBaserWrite(last_op) /\ last_op.valid_before /\ ~WrittenValid(last_op)
    /\ FIELD_EX(mem[Page1], L2_ISTE_PENDING) # {}
    /\ lpi_cache[GICV5_ID_NS] = EmptyCache

\* C4: reset zeroes IRS_IST_BASER and IRS_IST_CFGR of every domain, makes
\* every IST config invalid and empties every LPI cache, and leaves guest
\* memory as it was.
C4_ResetDropsCache ==
    [][last_op'.op = "gicv5_reset_hold"
       => /\ \A d \in Domains :
               /\ irs_ist_baser'[d] = {}
               /\ irs_ist_cfgr'[d] = {}
               /\ ~phys_lpi_config'[d].valid
               /\ lpi_cache'[d] = EmptyCache
          /\ mem' = mem
      ]_vars

\* a reset was taken while the cache held entries
C4_Witness == last_op.op = "gicv5_reset_hold" /\ last_op.cached # {}

\* C5: a write to IRS_IST_CFGR never changes the captured config; it leaves
\* the register unchanged while VALID is 1 and stores the value when VALID is 0.
C5_CfgrFrozenWhileValid ==
    [][(last_op'.op = "config_write" /\ last_op'.size = 4
        /\ last_op'.offset = A_IRS_IST_CFGR)
       => LET d == last_op'.domain IN
          /\ phys_lpi_config' = phys_lpi_config
          /\ IF FIELD_EX(irs_ist_baser[d], IRS_IST_BASER_VALID) # {}
             THEN irs_ist_cfgr' = irs_ist_cfgr
             ELSE irs_ist_cfgr' = [irs_ist_cfgr EXCEPT ![d] = last_op'.data]
      ]_vars

\* IRS_IST_CFGR was written with another value while VALID was 1
C5_Witness ==
    /\ last_op.op = "config_write" /\ last_op.offset = A_IRS_IST_CFGR
    /\ last_op.valid_before
    /\ last_op.data # irs_ist_cfgr[GICV5_ID_NS]

\* C6: while VALID is 1, a write to IRS_IST_BASER that amounts to VALID=1
\* (64-bit, or 32-bit to either half) changes neither the register, the
\* captured config, the LPI cache nor guest memory.
C6_BaserValidToValidIsNoOp ==
    [][(IsBaserWrite(last_op') /\ last_op'.valid_before /\ WrittenValid(last_op'))
       => UNCHANGED IstVars
      ]_vars

\* a 64-bit write with VALID=1 and another ADDR arrived while VALID was 1
\* and the cache held an entry
C6_Witness ==
    /\ IsBaserWrite(last_op) /\ last_op.valid_before /\ last_op.size = 8
    /\ WrittenValid(last_op)
    /\ last_op.data # irs_ist_baser[GICV5_ID_NS]
    /\ lpi_cache[GICV5_ID_NS] # EmptyCache

-----------------------------------------------------------------------------
(* Properties of the CPU interface and its wake lines *)

\* the wake lines are what gic_hppi of the current physical domain asks for
LinesCurrent ==
    interrupt_request = gicv5_update_irq_fiq(gicv5_cpuif, spi, lpi_cache)

CpuHppiOps ==
    {"gic_icc_pcr_el1_write", "gic_icc_apr_el1_write", "gic_icc_cr0_el1_write",
     "gic_ppi_cactive_write", "gic_ppi_sactive_write", "gic_ppi_cpend_write",
     "gic_ppi_spend_write", "gic_ppi_enable_write", "gic_ppi_priority_write",
     "gic_cdeoi_write", "gic_cddi_write", "gicr_cdia_read"}

\* C7: a CPU-interface operation that can change the HPPI outcome (a write to
\* ICC_PCR_EL1, ICC_APR_EL1, ICC_CR0_EL1 or an ICC_PPI_* register, GIC CDEOI,
\* GIC CDDI, a GICR CDIA/CDNMIA read) that starts with the IRQ/NMI/FIQ lines
\* equal to the values derived from gic_hppi(current physical domain) ends
\* with them equal to the values derived from the resulting state.
C7_CpuOpsKeepLinesCurrent ==
    [][(last_op'.op \in CpuHppiOps /\ ~aborted' /\ LinesCurrent) => LinesCurrent']_vars

IrsMutatingOps ==
    {"gicv5_set_priority", "gicv5_set_enabled", "gicv5_set_pending",
     "gicv5_set_handling", "gicv5_set_target", "gicv5_set_spi"}

\* C8: an IRS-side operation that mutates interrupt state (the stream commands
\* set_priority, set_enabled, set_pending, set_handling, set_target, and a
\* set_spi wire event) that starts with the wake lines up to date returns
\* with the CPU's lines reflecting the new pending/enabled/priority state.
C8_IrsOpsDriveLines ==
    [][(last_op'.op \in IrsMutatingOps /\ ~aborted' /\ LinesCurrent) => LinesCurrent']_vars

\* C9: a GICR CDIA / CDNMIA read returns 0 and changes no state (icc_apr, the
\* PPI bits, ppi_hppi, the IRS state, the wake lines) when gic_hppi of the
\* current physical domain has no candidate or the candidate's NMI-ness
\* (priority 0 and SCTLR_ELx.NMI) does not match the register read.
C9_FailedAckChangesNothing ==
    [][LET h == gic_hppi(gicv5_cpuif, spi, lpi_cache, gicv5_current_phys_domain)
           nmi == h.prio = 0 /\ sctlr_nmi
       IN  (last_op'.op = "gicr_cdia_read"
            /\ (h.intid = {} \/ nmi # last_op'.cdnmia))
           => /\ last_op'.ret = {}
              /\ UNCHANGED <<gicv5_cpuif, interrupt_request, sctlr_nmi, aborted,
                             irs_ist_baser, irs_ist_cfgr, phys_lpi_config, lpi_cache,
                             mem, spi>>]_vars

\* a CDNMIA read refused although a candidate was there
C9_Witness ==
    /\ last_op.op = "gicr_cdia_read" /\ last_op.cdnmia
    /\ last_op.hppi.intid # {} /\ last_op.ret = {}

\* C10: a successful acknowledge of PPI n at priority p sets bit p of
\* icc_apr[current domain], sets the ACTIVE bit of n, clears the PENDING bit
\* of n iff its handling mode is Edge, leaves the ACTIVE and PENDING bits of
\* every other PPI as they were, and returns the INTID with bit 32 set.
C10_PpiAcknowledge ==
    [][LET d == gicv5_current_phys_domain
           h == last_op'.hppi
           n == Val(FIELD_EX(h.intid, INTID_ID))
           Bits(c, f) == UNION {{64 * r + b : b \in c[f][r]} : r \in PpiRegs}
           edge == n \notin Bits(gicv5_cpuif, "ppi_hm")
       IN  (/\ last_op'.op = "gicr_cdia_read" /\ last_op'.ret # {} /\ ~aborted'
            /\ Val(FIELD_EX(h.intid, INTID_TYPE)) = GICV5_PPI)
           => /\ h.prio \in gicv5_cpuif'.icc_apr[d]
              /\ n \in Bits(gicv5_cpuif', "ppi_active")
              /\ (n \in Bits(gicv5_cpuif', "ppi_pend"))
                   = (n \in Bits(gicv5_cpuif, "ppi_pend") /\ ~edge)
              /\ Bits(gicv5_cpuif', "ppi_active") \ {n}
                   = Bits(gicv5_cpuif, "ppi_active") \ {n}
              /\ Bits(gicv5_cpuif', "ppi_pend") \ {n}
                   = Bits(gicv5_cpuif, "ppi_pend") \ {n}
              /\ last_op'.ret = h.intid \cup {32}]_vars

\* the lowest set bit of a word cleared (nothing for the zero word)
DropLowest(w) == IF w = {} THEN {} ELSE w \ {ctz64(w)}

AckedPpiOrIrs(op) == op.op = "gicr_cdia_read" /\ op.ret # {}

\* C11: GIC CDEOI clears exactly the lowest set bit of icc_apr[current
\* physical domain] and does nothing when it is zero; an acknowledge at
\* priority p, which is below the running priority, adds exactly bit p.  So
\* nested acknowledges at p1 > p2 leave exactly {p1, p2}, running priority p2,
\* and priority drops undo them in last-in-first-out order.
C11_PriorityDropIsLifo ==
    [][LET d == gicv5_current_phys_domain
           apr == gicv5_cpuif.icc_apr[d]
       IN  /\ (last_op'.op = "gic_cdeoi_write")
                => gicv5_cpuif'.icc_apr[d] = DropLowest(apr)
           /\ (AckedPpiOrIrs(last_op') /\ ~aborted')
                => /\ last_op'.hppi.prio < gic_running_prio(gicv5_cpuif, d)
                   /\ gicv5_cpuif'.icc_apr[d] = apr \cup {last_op'.hppi.prio}
                   /\ gic_running_prio(gicv5_cpuif', d) = last_op'.hppi.prio]_vars

\* C12: for every domain icc_apr has no bit set above bit 31, and the running
\* priority is the index of its lowest set bit, or PRIO_IDLE when it is zero.
C12_AprHas32Bits ==
    \A d \in Domains :
        /\ gicv5_cpuif.icc_apr[d] \subseteq W32
        /\ gic_running_prio(gicv5_cpuif, d) =
               IF gicv5_cpuif.icc_apr[d] = {} THEN PRIO_IDLE
               ELSE ctz64(gicv5_cpuif.icc_apr[d])

\* the two candidates gic_hppi chooses between in domain d
PpiCandidate(d) == gicv5_cpuif.ppi_hppi[d]
IrsCandidate(d) == gicv5_get_hppi(spi, lpi_cache, d, gicv5_iaffid)

\* C13: gic_hppi(domain) returns a candidate iff icc_cr0[domain].EN is 1 and
\* the best candidate is not idle, has priority <= icc_pcr[domain] and
\* priority strictly below the running priority; the best candidate is the
\* PPI HPPI when its priority is <= the IRS HPPI's (ties go to the PPI), the
\* IRS HPPI otherwise; in every other case the result is idle.
C13_HppiSelection ==
    \A d \in Domains :
        LET h == gic_hppi(gicv5_cpuif, spi, lpi_cache, d)
            best == IF PpiCandidate(d).prio <= IrsCandidate(d).prio
                    THEN PpiCandidate(d) ELSE IrsCandidate(d)
            sufficient == /\ 0 \in gicv5_cpuif.icc_cr0[d]
                          /\ best.prio # PRIO_IDLE
                          /\ best.prio <= Val(gicv5_cpuif.icc_pcr[d])
                          /\ best.prio < gic_running_prio(gicv5_cpuif, d)
        IN  IF sufficient
            THEN h.prio = best.prio /\ h.intid \cap MAKE_64BIT_MASK(0, 32) = best.intid
            ELSE h.intid = {} /\ h.prio = PRIO_IDLE

\* the best PPI and the IRS HPPI tie, and gic_hppi returns the PPI
C13_Witness ==
    LET d == GICV5_ID_NS
        h == gic_hppi(gicv5_cpuif, spi, lpi_cache, d)
    IN  /\ PpiCandidate(d).prio # PRIO_IDLE
        /\ PpiCandidate(d).prio = IrsCandidate(d).prio
        /\ h.prio # PRIO_IDLE
        /\ h.intid = PpiCandidate(d).intid

\* the operations that end in a wake-line update whatever their argument
LineUpdatingOps ==
    {"gic_icc_cr0_el1_write", "gic_cdeoi_write", "gic_ppi_cactive_write",
     "gic_ppi_sactive_write", "gic_ppi_cpend_write", "gic_ppi_spend_write",
     "gic_ppi_enable_write", "gic_ppi_priority_write"}

\* C14: after every wake-line update the NMI line is asserted iff
\* gic_hppi(current physical domain) has priority 0, the IRQ line iff that
\* HPPI is not idle and its priority is not 0, and the FIQ line is
\* deasserted; IRQ and NMI are never asserted together, FIQ never.
C14_WakeLines ==
    [][LET h == gic_hppi(gicv5_cpuif', spi', lpi_cache', gicv5_current_phys_domain)
       IN  /\ (last_op'.op \in LineUpdatingOps /\ ~aborted')
                => /\ ("CPU_INTERRUPT_NMI" \in interrupt_request') = (h.prio = 0)
                   /\ ("CPU_INTERRUPT_HARD" \in interrupt_request')
                        = (h.prio # PRIO_IDLE /\ h.prio # 0)
           /\ "CPU_INTERRUPT_FIQ" \notin interrupt_request'
           /\ ~({"CPU_INTERRUPT_HARD", "CPU_INTERRUPT_NMI"} \subseteq interrupt_request')]_vars

\* a wake-line update has asserted IRQ
C14_Witness ==
    /\ last_op.op = "gic_icc_cr0_el1_write"
    /\ "CPU_INTERRUPT_HARD" \in interrupt_request

\* C15: when gic_hppi finds a candidate of sufficient priority, the value read
\* from ICC_HPPIR_EL1 is the candidate's INTID with the HPPIV bit (bit 32)
\* set; when there is none the value is 0.
C15_HppirHasValidBit ==
    LET h == gic_hppi(gicv5_cpuif, spi, lpi_cache, gicv5_logical_domain) IN
    last_op.op = "gic_icc_hppir_el1_read"
    => last_op.ret = IF h.prio = PRIO_IDLE THEN {}
                     ELSE (h.intid \cap MAKE_64BIT_MASK(0, 32))
                          \cup FieldMask(ICC_HPPIR_EL1_HPPIV)

\* C16: a write to ICC_PPI_CPENDR<n>_EL1 or ICC_PPI_SPENDR<n>_EL1 never
\* changes the pending bit of a PPI whose handling mode is Level; for an Edge
\* PPI a CPENDR write with its bit set clears the bit and an SPENDR write with
\* its bit set sets it; bits not set in the written value are unchanged.
C16_PendWritesRespectHandlingMode ==
    [][(last_op'.op \in {"gic_ppi_cpend_write", "gic_ppi_spend_write"} /\ ~aborted')
       => \A r \in PpiRegs, b \in W64 :
            LET level == b \in gicv5_cpuif.ppi_hm[r]
                was == b \in gicv5_cpuif.ppi_pend[r]
                is == b \in gicv5_cpuif'.ppi_pend[r]
            IN  IF r # last_op'.n \/ level \/ b \notin last_op'.value
                THEN is = was
                ELSE is = (last_op'.op = "gic_ppi_spend_write")]_vars

\* a CPENDR0 write named the pending Level PPI 30 and the Edge PPI 3: PPI 30
\* is still pending, PPI 3 is not
C16_Witness ==
    /\ last_op.op = "gic_ppi_cpend_write" /\ {GICV5_PPI_SW_PPI, 30} \subseteq last_op.value
    /\ 30 \in gicv5_cpuif.ppi_pend[0]
    /\ GICV5_PPI_SW_PPI \notin gicv5_cpuif.ppi_pend[0]

-----------------------------------------------------------------------------
(* Properties of the stream commands on SPIs and LPIs *)

\* the command in last_op named a reachable SPI or an LPI whose L2 ISTE was
\* found, as seen after the command
CmdReached ==
    /\ ~last_op.virtual
    /\ \/ last_op.type = GICV5_SPI /\ gicv5_spi_state(last_op.id, last_op.domain)
       \/ /\ last_op.type = GICV5_LPI
          /\ get_l2_iste(phys_lpi_config[last_op.domain], lpi_cache[last_op.domain],
                         mem, last_op.id).ok

\* C17: after set_enabled(id, enabled, ...) with virtual = false on a
\* reachable SPI or on an LPI whose L2 ISTE is readable, request_config for
\* that interrupt reports ENABLED equal to the enabled argument.
C17_SetEnabledStoresArgument ==
    (last_op.op = "gicv5_set_enabled" /\ CmdReached)
    => FIELD_EX(gicv5_request_config_icsr(last_op.id, last_op.domain, last_op.type, FALSE),
                ICSR_ENABLED) = Bit(last_op.arg)
\* C18: after set_pending(id, pending, ...) with virtual = false on a
\* reachable SPI or on an LPI whose L2 ISTE is readable, request_config for
\* that interrupt reports PENDING equal to the pending argument.
C18_SetPendingStoresArgument ==
    (last_op.op = "gicv5_set_pending" /\ CmdReached)
    => FIELD_EX(gicv5_request_config_icsr(last_op.id, last_op.domain, last_op.type, FALSE),
                ICSR_PENDING) = Bit(last_op.arg)
\* the operation op names an SPI that the acting domain cannot reach
NamesUnreachableSpi(op) ==
    \/ /\ op.op \in {"gicv5_set_priority", "gicv5_set_enabled", "gicv5_set_pending",
                     "gicv5_set_handling", "gicv5_set_target"}
       /\ op.type = GICV5_SPI /\ ~op.virtual
       /\ ~gicv5_spi_state(op.id, op.domain)
    \/ /\ op.op = "config_write" /\ op.size = 4 /\ op.offset = A_IRS_SPI_RESAMPLER
       /\ ~gicv5_spi_state(Val(FIELD_EX(op.data, IRS_SPI_RESAMPLER_SPI_ID)), op.domain)

\* C19: a stream command (set_priority, set_enabled, set_pending,
\* set_handling, set_target) or a write to IRS_SPI_RESAMPLER that names an
\* unreachable SPI completes normally and changes no SPI record and no other
\* state.
C19_UnreachableSpiIsNoOp ==
    [][NamesUnreachableSpi(last_op')
       => (~aborted' /\ UNCHANGED <<IstVars, spi, CpuVars>>)]_vars
\* the priority set_priority stores for the argument p
MaskedPriority(p) ==
    p \cap MAKE_64BIT_MASK(5 - QEMU_GICV5_PRI_BITS, QEMU_GICV5_PRI_BITS)

\* C20: for a reachable SPI or an LPI whose L2 ISTE is readable,
\* set_priority(id, p) changes what request_config reports for id in the
\* PRIORITY field only, which becomes p masked to the implemented priority
\* bits, with F = 0; and a request_config issued immediately after the
\* set_priority returns exactly that report.
C20_RequestConfigAfterSetPriority ==
    [][/\ \A t \in CmdTargets, d \in implemented_domains :
            LET icsr == gicv5_request_config_icsr(t[2], d, t[1], FALSE) IN
            ( /\ last_op'.op = "gicv5_set_priority" /\ ~last_op'.virtual
              /\ last_op'.type = t[1] /\ last_op'.id = t[2] /\ last_op'.domain = d
              /\ FIELD_EX(icsr, ICSR_F) = {} )
            => /\ icsr' = FIELD_DP(icsr, ICSR_PRIORITY, MaskedPriority(last_op'.arg))
               /\ FIELD_EX(icsr', ICSR_F) = {}
       /\ ( /\ last_op.op = "gicv5_set_priority" /\ CmdReached
            /\ last_op'.op = "gicv5_request_config" /\ ~last_op'.virtual
            /\ last_op'.type = last_op.type /\ last_op'.id = last_op.id
            /\ last_op'.domain = last_op.domain )
          => /\ last_op'.ret = gicv5_request_config_icsr(last_op.id, last_op.domain,
                                                         last_op.type, FALSE)
             /\ FIELD_EX(last_op'.ret, ICSR_PRIORITY) = MaskedPriority(last_op.arg)
             /\ FIELD_EX(last_op'.ret, ICSR_F) = {}]_vars

\* request_config directly after set_priority(LPI 0, 31) reports priority 31
\* for the LPI, which an earlier command had enabled
C20_Witness ==
    /\ last_op.op = "gicv5_request_config"
    /\ last_op.prev.op = "gicv5_set_priority"
    /\ last_op.prev.type = GICV5_LPI /\ last_op.type = GICV5_LPI
    /\ last_op.prev.id = last_op.id
    /\ last_op.prev.arg = {0, 1, 2, 3, 4}
    /\ FIELD_EX(last_op.ret, ICSR_PRIORITY) = {0, 1, 2, 3, 4}
    /\ FIELD_EX(last_op.ret, ICSR_ENABLED) = {0}
    /\ FIELD_EX(last_op.ret, ICSR_F) = {}
\* C21: gicv5_request_config changes no state; it returns exactly the F bit
\* when virtual is true, when the type is SPI and the SPI is unreachable, or
\* when the type is LPI and the L2 ISTE cannot be obtained (IST not valid,
\* id >= 2^id_bits, L1 entry invalid, or a guest-memory read fault); in every
\* other case F is 0 in the value returned.
C21_RequestConfigFailure ==
    [][last_op'.op = "gicv5_request_config"
       => LET op == last_op'
              a == get_l2_iste_addr(phys_lpi_config[op.domain], mem, op.id)
              failure ==
                \/ op.virtual
                \/ op.type = GICV5_SPI /\ ~gicv5_spi_state(op.id, op.domain)
                \/ op.type = GICV5_LPI /\ (~a.ok \/ ~MemOk32(mem, a.addr))
          IN  /\ UNCHANGED <<IstVars, spi, CpuVars, aborted>>
              /\ IF failure THEN op.ret = FieldMask(ICSR_F)
                 ELSE FIELD_EX(op.ret, ICSR_F) = {}]_vars
\* request_config for an LPI below 2^id_bits of a valid two-level IST whose
\* L1 entry is invalid returned the F bit alone
C21_Witness ==
    LET cfg == phys_lpi_config[GICV5_ID_NS] IN
    /\ last_op.op = "gicv5_request_config"
    /\ last_op.type = GICV5_LPI /\ ~last_op.virtual
    /\ cfg.valid /\ cfg.structure /\ last_op.id < 2^cfg.id_bits
    /\ MemOk64(mem, l1_iste_addr(cfg, last_op.id))
    /\ ~get_l2_iste_addr(cfg, mem, last_op.id).ok
    /\ last_op.ret = FieldMask(ICSR_F)
\* C22: after gicv5_set_target(id, iaffid, irm, ...) on a reachable SPI or a
\* readable LPI, whether irm is Targeted or 1-of-N, request_config for that
\* interrupt reports IAFFID = iaffid and IRM = 0.
C22_SetTargetTreatsIrmAsTargeted ==
    (last_op.op = "gicv5_set_target" /\ CmdReached)
    => LET icsr == gicv5_request_config_icsr(last_op.id, last_op.domain,
                                             last_op.type, FALSE)
       IN  /\ FIELD_EX(icsr, ICSR_IAFFID) = last_op.arg[1] \cap MAKE_64BIT_MASK(0, 16)
           /\ FIELD_EX(icsr, ICSR_IRM) = {}
-----------------------------------------------------------------------------
(* Properties of the SPI input lines and the trigger mode *)

IsSpiCfgrWrite(op) ==
    op.op = "config_write" /\ op.size = 4 /\ op.offset = A_IRS_SPI_CFGR

\* the trigger mode a value written to IRS_SPI_CFGR asks for
WrittenTm(op) == IF 0 \in op.data THEN GICV5_TRIGGER_LEVEL ELSE GICV5_TRIGGER_EDGE

\* C24: a write to IRS_SPI_CFGR changes no SPI when the SPI selected by
\* IRS_SPI_SELR is not reachable from the frame's domain or when the written
\* tm is the SPI's tm; otherwise it stores tm and: to Level with level 1 sets
\* pending and hm = Level; to Level with level 0 clears pending; to Edge
\* with level 1 clears pending; to Edge with level 0 changes neither pending
\* nor hm.  No other SPI is changed.
C24_TriggerModeChange ==
    [][IsSpiCfgrWrite(last_op')
       => LET d == last_op'.domain
              id == Val(FIELD_EX(irs_spi_selr[d], IRS_SPI_SELR_ID))
              tm == WrittenTm(last_op')
          IN  IF ~(id \in SpiIds /\ spi[id].domain = d) \/ tm = spi[id].tm
              THEN spi' = spi
              ELSE /\ \A i \in SpiIds \ {id} : spi'[i] = spi[i]
                   /\ spi'[id] =
                         IF tm = GICV5_TRIGGER_LEVEL
                         THEN IF spi[id].level
                              THEN [spi[id] EXCEPT !.tm = tm, !.pending = TRUE,
                                                   !.hm = GICV5_LEVEL]
                              ELSE [spi[id] EXCEPT !.tm = tm, !.pending = FALSE]
                         ELSE IF spi[id].level
                              THEN [spi[id] EXCEPT !.tm = tm, !.pending = FALSE]
                              ELSE [spi[id] EXCEPT !.tm = tm]]_vars

\* an IRS_SPI_CFGR write has just changed a pending Level SPI whose line is
\* high to Edge, and the SPI is no longer pending
C24_Witness ==
    /\ IsSpiCfgrWrite(last_op) /\ last_op.selected
    /\ WrittenTm(last_op) = GICV5_TRIGGER_EDGE
    /\ last_op.spi_before.tm = GICV5_TRIGGER_LEVEL
    /\ last_op.spi_before.level /\ last_op.spi_before.pending
    /\ spi[SelrId(last_op.domain)].tm = GICV5_TRIGGER_EDGE
    /\ ~spi[SelrId(last_op.domain)].pending
IsResamplerWrite(op) ==
    op.op = "config_write" /\ op.size = 4 /\ op.offset = A_IRS_SPI_RESAMPLER

\* C25: a reachable SPI with tm = Level whose line is high is pending with
\* hm = Level after an IRS_SPI_RESAMPLER write naming it, and after its
\* trigger mode has been written to Edge and then back to Level through
\* IRS_SPI_CFGR, whatever its pending and hm were before.
C25_LevelHighIsPending ==
    [][/\ IsResamplerWrite(last_op')
          => LET id == Val(FIELD_EX(last_op'.data, IRS_SPI_RESAMPLER_SPI_ID)) IN
             ( /\ id \in SpiIds /\ spi[id].domain = last_op'.domain
               /\ spi[id].tm = GICV5_TRIGGER_LEVEL /\ spi[id].level )
             => /\ ~aborted'
                /\ spi'[id] = [spi[id] EXCEPT !.pending = TRUE, !.hm = GICV5_LEVEL]
       /\ ( /\ IsSpiCfgrWrite(last_op) /\ WrittenTm(last_op) = GICV5_TRIGGER_EDGE
            /\ last_op.selected
            /\ last_op.spi_before.tm = GICV5_TRIGGER_LEVEL /\ last_op.spi_before.level
            /\ IsSpiCfgrWrite(last_op') /\ WrittenTm(last_op') = GICV5_TRIGGER_LEVEL
            /\ last_op'.domain = last_op.domain )
          => LET id == SelrId(last_op.domain) IN
             spi'[id] = [last_op.spi_before EXCEPT !.pending = TRUE,
                                                   !.hm = GICV5_LEVEL]]_vars

\* IRS_SPI_CFGR has just been written back to Level for an SPI whose line is
\* high and which an earlier write to Edge had left not pending, with hm
\* Edge: it is pending again with hm = Level
C25_Witness ==
    /\ IsSpiCfgrWrite(last_op) /\ last_op.selected
    /\ WrittenTm(last_op) = GICV5_TRIGGER_LEVEL
    /\ last_op.spi_before.tm = GICV5_TRIGGER_EDGE
    /\ last_op.spi_before.level /\ ~last_op.spi_before.pending
    /\ last_op.spi_before.hm = GICV5_EDGE
    /\ spi[SelrId(last_op.domain)].pending
    /\ spi[SelrId(last_op.domain)].hm = GICV5_LEVEL
-----------------------------------------------------------------------------
(* Properties of the config frame registers *)

\* C26: a read of IRS_PE_STATUSR returns IDLE = 1, and V and ONLINE = 1
\* exactly when the IAFFID field (bits 15:0) of the frame's IRS_PE_SELR equals
\* the IAFFID of a CPU in the CPU table, and 0 otherwise.
C26_PeStatusrReportsSelectedIaffid ==
    ( /\ last_op.op = "config_read" /\ last_op.size = 4
      /\ last_op.offset = A_IRS_PE_STATUSR )
    => LET known == \E i \in DOMAIN cpu_iaffids :
                       FIELD_EX(irs_pe_selr[last_op.domain], IRS_PE_SELR_IAFFID)
                         = cpu_iaffids[i]
       IN  last_op.ret = FieldMask(IRS_PE_STATUSR_IDLE)
                         \cup (IF known
                               THEN FieldMask(IRS_PE_STATUSR_V)
                                    \cup FieldMask(IRS_PE_STATUSR_ONLINE)
                               ELSE {})

\* the offsets of SpecFrame at which config_readl has no register
NoReadlRegister == {A_RESERVED, A_IRS_MAP_L2_ISTR}
\* the offsets of SpecFrame at which config_writel has no register:
\* the reserved offset and the read-only registers
NoWritelRegister == {A_RESERVED, A_IRS_IDR0, A_IRS_IST_STATUSR, A_IRS_SPI_STATUSR,
                     A_IRS_PE_STATUSR}
\* a read of a reserved or unimplemented offset, or of a size the register lacks
IsReservedRead(op) ==
    /\ op.op = "config_read"
    /\ \/ op.size = 4 /\ op.offset \in NoReadlRegister
       \/ op.size = 8 /\ op.offset # A_IRS_IST_BASER
       \/ op.size \notin {4, 8}
\* a write of a reserved or read-only register, or of a size the register lacks
IsReservedWrite(op) ==
    /\ op.op = "config_write"
    /\ \/ op.size = 4 /\ op.offset \in NoWritelRegister
       \/ op.size = 8 /\ op.offset # A_IRS_IST_BASER
       \/ op.size \notin {4, 8}
\* everything the device holds, the history variables left out
DeviceState == <<IstVars, SelVars, spi, aborted, CpuVars>>

\* C27: through the frame of an implemented domain, a read of a reserved or
\* unimplemented offset, or of a size the register does not support, returns
\* 0; a write of a reserved or read-only register changes no device state;
\* and both complete with MEMTX_OK.
C27_ReservedAccessIsRazWi ==
    [][/\ IsReservedRead(last_op') =>
            last_op'.ret = {} /\ last_op'.memtx = "MEMTX_OK"
       /\ IsReservedWrite(last_op') =>
            UNCHANGED DeviceState /\ last_op'.memtx = "MEMTX_OK"]_vars
\* a 64-bit read of the 32-bit IRS_IST_CFGR while it holds a nonzero value
C27_Witness ==
    /\ IsReservedRead(last_op) /\ last_op.size = 8 /\ last_op.offset = A_IRS_IST_CFGR
    /\ irs_ist_cfgr[GICV5_ID_NS] # {}
    /\ nops = MaxRegOps

\* C28: a 32-bit read of IRS_IDR0 through the frame of domain d returns the
\* device's IDR0 value with INT_DOM = d, MEC cleared in every frame but the
\* Realm one and VIRT cleared in the EL3 frame.
C28_Idr0ReadsPerDomain ==
    ( /\ last_op.op = "config_read" /\ last_op.size = 4
      /\ last_op.offset = A_IRS_IDR0 )
    => LET d == last_op.domain
           dom == FIELD_DP(irs_idr0, IRS_IDR0_INT_DOM, BitsOf(d))
           mec == IF d # GICV5_ID_REALM THEN dom \ FieldMask(IRS_IDR0_MEC) ELSE dom
           virt == IF d = GICV5_ID_EL3 THEN mec \ FieldMask(IRS_IDR0_VIRT) ELSE mec
       IN  last_op.ret = virt

\* the whole IRS_IST_BASER value a write of the register, or of its low half,
\* hands to irs_ist_baser_write
WrittenBaser(op, old) ==
    IF op.size = 8 THEN op.data \cap W64 ELSE FIELD_DP(old, <<0, 32>>, op.data)
\* log2 of the L2 entry size and of the L2 page size, per encoding
EntryLog2 == <<2, 3, 4, 2>>
PageLog2 == <<12, 14, 16, 12>>

\* C29: a write of IRS_IST_BASER with VALID = 1 while VALID is 0 captures, from
\* the current IRS_IST_CFGR: L2 entry size 4 for ISTSZ 0 or 3, 8 for 1, 16 for
\* 2; L2 page 4K for L2SZ 0 or 3, 16K for 1, 64K for 2; id_bits = LPI_ID_BITS
\* clamped to 14..24; l2_idx_bits = log2(page) - log2(entry); base = the ADDR
\* field of the written value; structure = the STRUCTURE bit; valid = TRUE.
C29_CapturedIstConfig ==
    [][\A d \in implemented_domains :
         ( /\ last_op'.op = "config_write" /\ last_op'.domain = d
           /\ last_op'.offset = A_IRS_IST_BASER
           /\ ~last_op'.valid_before
           /\ FIELD_EX(last_op'.data, IRS_IST_BASER_VALID) # {} )
         => LET cfgr == irs_ist_cfgr[d]
                istsz == Val(FIELD_EX(cfgr, IRS_IST_CFGR_ISTSZ))
                l2sz == Val(FIELD_EX(cfgr, IRS_IST_CFGR_L2SZ))
                bits == Val(FIELD_EX(cfgr, IRS_IST_CFGR_LPI_ID_BITS))
                cfg == phys_lpi_config'[d]
            IN  /\ cfg.istsz = 2^EntryLog2[istsz + 1]
                /\ cfg.l2_idx_bits = PageLog2[l2sz + 1] - EntryLog2[istsz + 1]
                /\ cfg.id_bits = IF bits < 14 THEN 14 ELSE IF bits > 24 THEN 24 ELSE bits
                /\ cfg.base = WrittenBaser(last_op', irs_ist_baser[d])
                                 \cap FieldMask(IRS_IST_BASER_ADDR)
                /\ cfg.structure = (FIELD_EX(cfgr, IRS_IST_CFGR_STRUCTURE) # {})
                /\ cfg.valid]_vars
\* VALID was just set under a CFGR with the reserved ISTSZ and L2SZ encodings
\* and LPI_ID_BITS above the supported range
C29_Witness ==
    /\ last_op.op = "config_write" /\ last_op.offset = A_IRS_IST_BASER
    /\ ~last_op.valid_before
    /\ FIELD_EX(last_op.data, IRS_IST_BASER_VALID) # {}
    /\ Val(FIELD_EX(irs_ist_cfgr[GICV5_ID_NS], IRS_IST_CFGR_ISTSZ)) = 3
    /\ Val(FIELD_EX(irs_ist_cfgr[GICV5_ID_NS], IRS_IST_CFGR_L2SZ)) = 3
    /\ Val(FIELD_EX(irs_ist_cfgr[GICV5_ID_NS], IRS_IST_CFGR_LPI_ID_BITS)) = 31
    /\ phys_lpi_config[GICV5_ID_NS].valid
    /\ phys_lpi_config[GICV5_ID_NS].istsz = 4
    /\ phys_lpi_config[GICV5_ID_NS].l2_idx_bits = 10
    /\ phys_lpi_config[GICV5_ID_NS].id_bits = 24
-----------------------------------------------------------------------------
(* Properties of put_l2_iste *)

\* C30: put_l2_iste on a handle that came from the LPI cache, when the modified
\* word no longer has PENDING set, removes the id's entry from the cache and
\* writes the modified word to the id's L2 ISTE address: afterwards the word
\* in guest memory equals the modified word and the cache has no entry for id.
C30_PutCachedNotPending ==
    [][\A id \in LpiIds, d \in implemented_domains :
         ( /\ last_op'.op = "gicv5_set_pending"
           /\ last_op'.id = id /\ last_op'.domain = d
           /\ last_op'.type = GICV5_LPI /\ ~last_op'.virtual
           /\ last_op'.arg = FALSE
           /\ last_op'.hashed )
         => LET w == FIELD_DP(lpi_cache[d][id], L2_ISTE_PENDING, {})
                a == get_l2_iste_addr(phys_lpi_config[d], mem, id)
            IN  /\ id \notin DOMAIN lpi_cache'[d]
                /\ a.ok
                /\ address_space_ldl_le(mem', a.addr) = w]_vars
\* a cached LPI whose word differed from guest memory was just made not
\* pending, and its word, with a priority the cache alone held, is in memory
C30_Witness ==
    /\ last_op.op = "gicv5_set_pending" /\ last_op.type = GICV5_LPI
    /\ last_op.arg = FALSE /\ last_op.hashed
    /\ phys_lpi_config[last_op.domain].valid
    /\ last_op.id \notin DOMAIN lpi_cache[last_op.domain]
    /\ LET a == get_l2_iste_addr(phys_lpi_config[last_op.domain], mem, last_op.id)
       IN  /\ a.ok
           /\ FIELD_EX(address_space_ldl_le(mem, a.addr), L2_ISTE_PRIORITY) # {}
           /\ FIELD_EX(address_space_ldl_le(mem, a.addr), L2_ISTE_PENDING) = {}

\* C31: put_l2_iste on a handle read from guest memory, when the modified word
\* has PENDING set, inserts id -> modified word into the LPI cache and writes
\* nothing to guest memory.
C31_PutUncachedPending ==
    [][\A id \in LpiIds, d \in implemented_domains :
         LET h == get_l2_iste(phys_lpi_config[d], lpi_cache[d], mem, id) IN
         ( /\ last_op'.op = "gicv5_set_pending"
           /\ last_op'.id = id /\ last_op'.domain = d
           /\ last_op'.type = GICV5_LPI /\ ~last_op'.virtual
           /\ last_op'.arg = TRUE
           /\ h.ok /\ ~h.hashed )
         => /\ id \in DOMAIN lpi_cache'[d]
            /\ lpi_cache'[d][id] = FIELD_DP(h.l2_iste, L2_ISTE_PENDING, {0})
            /\ mem' = mem]_vars
\* an LPI read from guest memory was just made pending: the cache holds its
\* word and guest memory still holds the word without PENDING
C31_Witness ==
    /\ last_op.op = "gicv5_set_pending" /\ last_op.type = GICV5_LPI
    /\ last_op.arg = TRUE /\ ~last_op.virtual /\ ~last_op.hashed
    /\ phys_lpi_config[last_op.domain].valid
    /\ last_op.id \in DOMAIN lpi_cache[last_op.domain]
    /\ LET a == get_l2_iste_addr(phys_lpi_config[last_op.domain], mem, last_op.id)
       IN  /\ a.ok
           /\ FIELD_EX(address_space_ldl_le(mem, a.addr), L2_ISTE_PENDING) = {}

\* C32: for a cached handle whose word still has PENDING set, and for an
\* uncached handle whose word does not have PENDING set, put_l2_iste writes the
\* modified word to guest memory: the L2 ISTE in guest memory equals the
\* modified word after the command.
C32_PutOtherwiseWritesBack ==
    [][\A id \in LpiIds, d \in implemented_domains :
         LET h == get_l2_iste(phys_lpi_config[d], lpi_cache[d], mem, id)
             a == get_l2_iste_addr(phys_lpi_config[d], mem, id)
             w == FIELD_DP(h.l2_iste, L2_ISTE_ENABLE, Bit(last_op'.arg))
         IN  ( /\ last_op'.op = "gicv5_set_enabled"
               /\ last_op'.id = id /\ last_op'.domain = d
               /\ last_op'.type = GICV5_LPI /\ ~last_op'.virtual
               /\ h.ok
               /\ h.hashed = (FIELD_EX(w, L2_ISTE_PENDING) # {}) )
             => a.ok /\ address_space_ldl_le(mem', a.addr) = w]_vars
-----------------------------------------------------------------------------
(* Properties of the IST walk *)

\* the L2 ISTE address of id as the table layout defines it: a sequence with
\* the address, empty when the lookup yields none
LayoutAddr(cfg, m, id) ==
    IF ~cfg.valid \/ id >= 2^cfg.id_bits THEN <<>>
    ELSE IF ~cfg.structure THEN <<AddOff(cfg.base, id * cfg.istsz)>>
    ELSE LET l1 == AddOff(cfg.base, (id \div 2^cfg.l2_idx_bits) * 8) IN
         IF ~MemOk64(m, l1) \/ 0 \notin m[l1] THEN <<>>
         ELSE <<AddOff((m[l1] \cup {b + 32 : b \in m[AddOff(l1, 4)]})
                         \cap FieldMask(L1_ISTE_L2_ADDR),
                       (id % 2^cfg.l2_idx_bits) * cfg.istsz)>>

\* C33: for a valid IST config and an uncached id < 2^id_bits the L2 ISTE
\* address used is base + id * istsz in a 1-level table and
\* L2_ADDR(L1 entry at base + (id >> l2_idx_bits) * 8)
\*   + (id mod 2^l2_idx_bits) * istsz in a 2-level table; the lookup yields none
\* when the config is not valid, when id >= 2^id_bits or when the L1 entry's
\* VALID bit is 0.  Seen through gicv5_set_enabled on an LPI that is not
\* cached: the command rewrites the word at that address, and does nothing
\* when there is none.
C33_L2IsteAddress ==
    [][\A id \in LpiIds, d \in implemented_domains :
         LET cfg == phys_lpi_config[d]
             la == LayoutAddr(cfg, mem, id)
         IN  ( /\ last_op'.op = "gicv5_set_enabled"
               /\ last_op'.id = id /\ last_op'.domain = d
               /\ last_op'.type = GICV5_LPI /\ ~last_op'.virtual
               /\ id \notin DOMAIN lpi_cache[d] )
             => IF la = <<>> \/ ~MemOk32(mem, la[1])
                THEN UNCHANGED <<lpi_cache, mem>>
                ELSE LET w == FIELD_DP(mem[la[1]], L2_ISTE_ENABLE, Bit(last_op'.arg))
                     IN  IF 0 \in w
                         THEN lpi_cache'[d] = HashInsert(lpi_cache[d], id, w)
                              /\ mem' = mem
                         ELSE mem' = [mem EXCEPT ![la[1]] = w]
                              /\ lpi_cache' = lpi_cache]_vars
\* LPI 1024 was just enabled through a 2-level table: its word is in the
\* second L2 table, at entry 0
C33_Witness ==
    /\ last_op.op = "gicv5_set_enabled" /\ last_op.type = GICV5_LPI
    /\ last_op.id = 1024 /\ last_op.arg = TRUE /\ ~last_op.hashed
    /\ phys_lpi_config[last_op.domain].valid
    /\ phys_lpi_config[last_op.domain].structure
    /\ phys_lpi_config[last_op.domain].l2_idx_bits = 10
    /\ 0 \in mem[AddOff(Page0, 8)]
    /\ mem[Page2] = FieldMask(L2_ISTE_ENABLE)
-----------------------------------------------------------------------------
(* Properties of the PPI scan *)

\* the PPIs that are enabled, pending and not active, over both registers
EnPendNact(c) ==
    {p \in 0..(GICV5_NUM_PPIS - 1) :
       /\ (p % 64) \in c.ppi_enable[p \div 64]
       /\ (p % 64) \in c.ppi_pend[p \div 64]
       /\ (p % 64) \notin c.ppi_active[p \div 64]}
\* the priority of PPI p
PpiPrio(c, p) == Val(FIELD_EX(c.ppi_priority[p \div 8], <<(p % 8) * 8, 5>>))
\* the lowest-numbered PPI of minimal priority among ps
BestPpi(c, ps) ==
    CHOOSE p \in ps : \A q \in ps :
        PpiPrio(c, p) < PpiPrio(c, q) \/ (PpiPrio(c, p) = PpiPrio(c, q) /\ p <= q)

\* C34: after gic_recalc_ppi_hppi, ppi_hppi[NS] holds the INTID and priority
\* of the enabled, pending, not active PPI of minimal priority over all 128
\* PPIs, the lowest-numbered one on a tie, and is idle iff there is none;
\* ppi_hppi of every other domain is idle.
C34_PpiHppiIsBest ==
    (~aborted /\ last_op.op # "init")
    => LET c == gicv5_cpuif
           ps == EnPendNact(c)
       IN  /\ c.ppi_hppi[GICV5_ID_NS] =
                 IF ps = {} THEN IdleIrq
                 ELSE [intid |-> MakeIntid(GICV5_PPI, BestPpi(c, ps)),
                       prio |-> PpiPrio(c, BestPpi(c, ps))]
           /\ \A d \in Domains \ {GICV5_ID_NS} : c.ppi_hppi[d] = IdleIrq

\* the words the scan loop of register i meets when every pass removes the
\* bit it examined: the enabled, pending, not active bits from b upwards
ScanWords(c, i) ==
    LET w == (c.ppi_enable[i] \cap c.ppi_pend[i]) \ c.ppi_active[i]
    IN  {{x \in w : x >= b} : b \in w}

\* C39: gic_recalc_ppi_hppi terminates for every combination of PPI enable,
\* pending and active bits, bits 31..63 of a register included, and each
\* pass of its scan loop removes the bit it has just examined and no other.
C39_PpiScanTerminates ==
    /\ ~aborted
    /\ \A o \in PpiHppiOutcomes(gicv5_cpuif) : ~o.hang
    /\ \A i \in PpiRegs : \A w \in ScanWords(gicv5_cpuif, i) :
          ClearScanned(w, ctz64(w)) = {w \ {ctz64(w)}}

\* C35: a GIC CDDI write naming PPI n, n below the number of PPIs, clears the
\* ACTIVE bit of PPI n and leaves the ACTIVE bit of every other PPI, in both
\* registers and at every bit position, unchanged; one naming a PPI id at or
\* above the number of PPIs, or a reserved type, changes nothing.
C35_CddiClearsOneActiveBit ==
    [][last_op'.op = "gic_cddi_write" =>
         LET type == Val(FIELD_EX(last_op'.value, GIC_CDDI_TYPE))
             id == Val(FIELD_EX(last_op'.value, GIC_CDDI_ID))
         IN  IF type = GICV5_PPI /\ id < GICV5_NUM_PPIS
             THEN gicv5_cpuif'.ppi_active =
                    [gicv5_cpuif.ppi_active EXCEPT ![id \div 64] = @ \ {id % 64}]
             ELSE type \notin {GICV5_LPI, GICV5_SPI}
                  => UNCHANGED <<gicv5_cpuif, interrupt_request, IrsVars>>]_vars

\* the stream commands that update an LPI
LpiCommands == {"gicv5_set_priority", "gicv5_set_enabled", "gicv5_set_pending",
                "gicv5_set_handling", "gicv5_set_target"}
\* the IST walk for id fails: the config is not valid, or the id is not cached
\* and has no L2 ISTE address (id out of range, L1 read fault, L1 entry not
\* valid) or the L2 ISTE read faults
WalkFails(cfg, cache, m, id) ==
    \/ ~cfg.valid
    \/ /\ id \notin DOMAIN cache
       /\ \/ LayoutAddr(cfg, m, id) = <<>>
          \/ ~MemOk32(m, LayoutAddr(cfg, m, id)[1])

\* C36: when the IST walk of an LPI stream command fails (L1 or L2 ISTE read
\* fault, L1 entry not valid, IST config not valid) the command has no
\* effect: the LPI cache, guest memory and all registers are as before.
C36_FailedWalkHasNoEffect ==
    [][\A id \in LpiIds, d \in implemented_domains :
         ( /\ last_op'.op \in LpiCommands
           /\ last_op'.id = id /\ last_op'.domain = d
           /\ last_op'.type = GICV5_LPI /\ ~last_op'.virtual
           /\ WalkFails(phys_lpi_config[d], lpi_cache[d], mem, id) )
         => UNCHANGED <<IstVars, SelVars, spi, CpuVars>>]_vars
\* a command on an LPI whose L2 ISTE address exists but lies outside guest
\* RAM: the L2 ISTE read faulted
C36_Witness ==
    /\ last_op.op \in LpiCommands /\ last_op.type = GICV5_LPI /\ ~last_op.virtual
    /\ LET cfg == phys_lpi_config[last_op.domain]
           la == LayoutAddr(cfg, mem, last_op.id)
       IN  /\ cfg.valid /\ ~cfg.structure
           /\ la # <<>> /\ ~MemOk32(mem, la[1])
           /\ lpi_cache[last_op.domain] = EmptyCache
-----------------------------------------------------------------------------
(* Properties of the acknowledge *)

\* C37: every successful acknowledge (GICR CDIA / CDNMIA returning non-zero)
\* happens at a priority numerically strictly lower than every bit set in
\* icc_apr of the current domain, so it sets an APR bit that was clear, and
\* right afterwards the running priority is the acknowledged priority,
\* whatever the guest wrote to ICC_APR_EL1 and ICC_PCR_EL1 before.
C37_AcknowledgePreempts ==
    [][(last_op'.op = "gicr_cdia_read" /\ last_op'.ret # {}) =>
         LET d == gicv5_current_phys_domain
             p == last_op'.hppi.prio
         IN  /\ \A b \in gicv5_cpuif.icc_apr[d] : p < b
             /\ p \notin gicv5_cpuif.icc_apr[d]
             /\ p \in gicv5_cpuif'.icc_apr[d]
             /\ \A b \in gicv5_cpuif'.icc_apr[d] : p <= b]_vars
\* an acknowledge at priority 4 while the guest-written APR held a bit
C37_Witness ==
    /\ last_op.op = "gicr_cdia_read" /\ last_op.ret # {}
    /\ last_op.hppi.prio = 4
    /\ \E b \in gicv5_cpuif.icc_apr[gicv5_current_phys_domain] : b > 4
    /\ 4 \in gicv5_cpuif.icc_apr[gicv5_current_phys_domain]
-----------------------------------------------------------------------------
(* Invariants of the LPI cache and of the SPI state *)

\* C38: between operations every word in an LPI cache has its PENDING bit
\* set: no sequence of stream commands, IRS_IST_BASER writes and resets
\* leaves a not-pending word cached.  (A cache is a hash table keyed by id,
\* here a function of the id, so it has one entry per id at most.)
C38_CachedWordsArePending ==
    \A d \in Domains : \A id \in DOMAIN lpi_cache[d] :
        FIELD_EX(lpi_cache[d][id], L2_ISTE_PENDING) # {}
\* a command has just rewritten, in place, the word of a cached LPI, and a
\* second LPI is cached beside it
C38_Witness ==
    /\ last_op.op = "gicv5_set_priority" /\ last_op.type = GICV5_LPI
    /\ last_op.hashed
    /\ last_op.id \in DOMAIN lpi_cache[last_op.domain]
    /\ FIELD_EX(lpi_cache[last_op.domain][last_op.id], L2_ISTE_PRIORITY) # {}
    /\ Cardinality(DOMAIN lpi_cache[last_op.domain]) = 2

\* C40: from reset, under set_spi wire events, IRS_SPI_SELR / IRS_SPI_CFGR
\* writes and IRS_SPI_RESAMPLER writes, every SPI whose trigger mode is Level
\* has pending equal to its stored wire level in every reachable state.
C40_LevelSpiPendingIsLevel ==
    \A id \in SpiIds :
        spi[id].tm = GICV5_TRIGGER_LEVEL => (spi[id].pending = spi[id].level)
\* an Edge SPI that was pending with its line low was just made Level: the
\* pending state went away with the change
C40_Witness ==
    /\ last_op.op = "config_write" /\ last_op.offset = A_IRS_SPI_CFGR
    /\ last_op.selected
    /\ last_op.spi_before.tm = GICV5_TRIGGER_EDGE
    /\ last_op.spi_before.pending /\ ~last_op.spi_before.level
    /\ spi[SelrId(last_op.domain)].tm = GICV5_TRIGGER_LEVEL
    /\ ~spi[SelrId(last_op.domain)].pending

=============================================================================
